---- MODULE Spec2Model ----
(***************************************************************************)
(* A model of rusty_chips: the CHIP-8 interpreter (src/src/chip8.rs), its  *)
(* driver loop, and the actors it talks to over tokio channels: the Fuse   *)
(* (src/src/fuse.rs), the two Counters (src/src/counter.rs), the keypad    *)
(* (src/src/input.rs) and the video memory (src/src/vram.rs), together     *)
(* with the calls the front end (src/src/ui/sdl.rs) makes on them.         *)
(*                                                                         *)
(* Representation notes.                                                   *)
(*  - memory: [u8; 4096] is kept as the function of its non-zero bytes;    *)
(*    MemAt reads it, MemWrite writes it. An index >= 4096 is a panic.     *)
(*  - the pixel grid is kept as the set of its lit (x, y) cells.           *)
(*  - the broadcast channel of the Fuse has capacity 1: it is its single   *)
(*    slot plus the number of values the receiver has not read yet         *)
(*    (tail.pos - next), where every number above the capacity behaves     *)
(*    alike (the next recv answers Lagged and skips to the slot).          *)
(*  - u8/u16 arithmetic that can overflow panics in a build with overflow  *)
(*    checks and wraps in one without: overflow_checks is chosen in Init.  *)
(*  - time is counted in periods of the 60Hz intervals (now).              *)
(***************************************************************************)
EXTENDS Integers, Sequences, FiniteSets, TLC

(***************************************************************************)
(* Program constants.                                                      *)
(***************************************************************************)
MemSize == 4096
ProgStart == 512
FontBase == 80
RomMax == 3584
ScreenW == 64
ScreenH == 32
ChanCap == 10
FuseCap == 1

(***************************************************************************)
(* Bounds of the model.                                                    *)
(***************************************************************************)
\* registers are loaded with the bytes 0..MaxLow and 255-MaxLow..255
MaxLow == 2
\* the 60Hz clock runs from 0 to MaxTime
MaxTime == 12
\* calls the front end makes in one run
MaxFrontOps == 3
\* the deepest nesting of calls the history follows
MaxDepth == 16
\* the calls the front end makes when ROMs are loaded
MaxLoadOps == 2
\* the calls the front end makes, and the periods that pass, when keys are sent
MaxKeyOps == 3
MaxKeyTime == 2
\* the same when the Counters are read
MaxCountOps == 2
MaxCountTime == 3
\* the same over the whole life of the Counters
MaxEndOps == 3
MaxEndTime == 2
\* the same when every actor is talked to
MaxFifoOps == 2
MaxFifoTime == 2
\* the calls the front end makes while a sprite is drawn
MaxRaceOps == 2
\* the control messages a client of the handle sends
MaxCtlOps == 3
\* the calls the front end makes while sprites are drawn from any Vx, Vy
MaxPixelOps == 1

Byte == 0..255
Nibble == 0..15
Bit == {0, 1}

RECURSIVE BitAndN(_, _, _)
BitAndN(a, b, n) ==
    IF n = 0 THEN 0
    ELSE ((a % 2) * (b % 2)) + 2 * BitAndN(a \div 2, b \div 2, n - 1)

RECURSIVE BitOrN(_, _, _)
BitOrN(a, b, n) ==
    IF n = 0 THEN 0
    ELSE (IF (a % 2) + (b % 2) > 0 THEN 1 ELSE 0)
         + 2 * BitOrN(a \div 2, b \div 2, n - 1)

RECURSIVE BitXorN(_, _, _)
BitXorN(a, b, n) ==
    IF n = 0 THEN 0
    ELSE (((a % 2) + (b % 2)) % 2) + 2 * BitXorN(a \div 2, b \div 2, n - 1)

BitAnd(a, b) == BitAndN(a, b, 16)
BitOr(a, b) == BitOrN(a, b, 16)
BitXor(a, b) == BitXorN(a, b, 16)

Min(a, b) == IF a < b THEN a ELSE b

(***************************************************************************)
(* memory: [u8; 4096], as the function of its non-zero bytes.              *)
(***************************************************************************)
MemAt(m, a) == IF a \in DOMAIN m THEN m[a] ELSE 0

MemWrite(m, a, v) ==
    IF v = 0 THEN [b \in (DOMAIN m) \ {a} |-> m[b]]
    ELSE [b \in (DOMAIN m) \cup {a} |-> IF b = a THEN v ELSE m[b]]

\* (a copy of all the bytes, however many)
load_bytes_at_whole(m, bytes, at) ==
    LET touched == at..(at + Len(bytes) - 1)
        keep == (DOMAIN m) \ touched
        new == {a \in touched : bytes[a - at + 1] # 0}
    IN [a \in keep \cup new |-> IF a \in new THEN bytes[a - at + 1] ELSE m[a]]

\* load_bytes_at: memory[at..at+idx] = bytes[0..idx], idx = min(len, 3584)
load_bytes_at(m, bytes, at) ==
    LET idx == IF Len(bytes) < RomMax THEN Len(bytes) ELSE RomMax
        touched == at..(at + idx - 1)
        keep == (DOMAIN m) \ touched
        new == {a \in touched : bytes[a - at + 1] # 0}
    IN [a \in keep \cup new |-> IF a \in new THEN bytes[a - at + 1] ELSE m[a]]

fontset ==
    << 240, 144, 144, 144, 240,   32,  96,  32,  32, 112,
       240,  16, 240, 128, 240,  240,  16, 240,  16, 240,
       144, 144, 240,  16,  16,  240, 128, 240,  16, 240,
       240, 128, 240, 144, 240,  240,  16,  32,  64,  64,
       240, 144, 240, 144, 240,  240, 144, 240,  16, 240,
       240, 144, 240, 144, 144,  224, 144, 224, 144, 224,
       240, 128, 128, 128, 240,  224, 144, 144, 144, 224,
       240, 128, 240, 128, 240,  240, 128, 240, 128, 128,
        96, 128, 240,  16,  96 >>

EmptyMem == [a \in {} |-> 0]

\* init_chip8: the font at 0x50, then the ROM at 0x200
init_memory(rom) == load_bytes_at(load_bytes_at(EmptyMem, fontset, FontBase), rom, ProgStart)


(***************************************************************************)
(* State.                                                                  *)
(***************************************************************************)
VARIABLES
    \* struct Chip8
    memory, vS, i, pc, sp, running,
    \* the driver task: where run_chip8 / cycle / draw stands, and draw's locals
    c8_pc, drw,
    \* mpsc channel of Chip8Message (Chip8Handle.send -> Chip8.exec)
    exec,
    \* struct VRAM: the grid, its channel, whether vram_runner still runs,
    \* and the reply channels of the get_pixel and get in flight
    mem, vram_q, vram_up, pixel_resp, frame_resp,
    \* struct Input: the flags, its channel, where run_input stands, its interval,
    \* and the oneshot of the pressed() in flight
    keypad, input_q, input_pc, input_ival, status_resp,
    \* struct Counter, one per instance ("delay", "sound")
    value, counter_q, counter_pc, counter_ival, count_resp,
    \* the Fuse: the slot of the broadcast channel, the number of values the
    \* receiver has not read, and whether the receiver (run_fuse) still exists
    fuse_slot, fuse_unread, fuse_rx,
    \* the front end: where gui_loop stands, and the calls it has left
    fe_pc, fe_ops,
    \* the 60Hz clock and the build's overflow checks
    now, overflow_checks,
    \* history of the run, read by the properties only
    hist

chipVars == <<memory, vS, i, pc, sp, running, c8_pc, drw, exec>>
vramVars == <<mem, vram_q, vram_up, pixel_resp, frame_resp>>
inputVars == <<keypad, input_q, input_pc, input_ival, status_resp>>
counterVars == <<value, counter_q, counter_pc, counter_ival, count_resp>>
fuseVars == <<fuse_slot, fuse_unread, fuse_rx>>
frontVars == <<fe_pc, fe_ops>>
vars == <<chipVars, vramVars, inputVars, counterVars, fuseVars, frontVars,
          now, overflow_checks, hist>>

(***************************************************************************)
(* Opcode fields.                                                          *)
(***************************************************************************)
OpTop(opcode) == opcode \div 4096
OpX(opcode) == (opcode \div 256) % 16
OpY(opcode) == (opcode \div 16) % 16
OpN(opcode) == opcode % 16
OpKK(opcode) == opcode % 256
OpNNN(opcode) == opcode % 4096

(***************************************************************************)
(* The registers of Chip8 as a record, so that one instruction is a        *)
(* function of them. fault: the task has panicked.                         *)
(***************************************************************************)
Cpu == [memory |-> memory, vS |-> vS, i |-> i, pc |-> pc, sp |-> sp, fault |-> FALSE]

Panic(s) == [s EXCEPT !.fault = TRUE]

\* u16 / u8 arithmetic: a result out of range panics with overflow checks
\* and wraps without them
SetPc(s, v) ==
    IF v \in 0..65535 THEN [s EXCEPT !.pc = v]
    ELSE IF overflow_checks THEN Panic(s)
    ELSE [s EXCEPT !.pc = v % 65536]

SetI(s, v) ==
    IF v \in 0..65535 THEN [s EXCEPT !.i = v]
    ELSE IF overflow_checks THEN Panic(s)
    ELSE [s EXCEPT !.i = v % 65536]

SetSp(s, v) ==
    IF v \in 0..255 THEN [s EXCEPT !.sp = v]
    ELSE IF overflow_checks THEN Panic(s)
    ELSE [s EXCEPT !.sp = v % 256]

SetV(s, x, v) == [s EXCEPT !.vS = [@ EXCEPT ![x] = v]]

\* self.memory[a] = v
SetMem(s, a, v) ==
    IF a >= MemSize THEN Panic(s) ELSE [s EXCEPT !.memory = MemWrite(@, a, v)]

\* fetch: the opcode at pc (pc < 0x1000 here)
Fetch(m, p) ==
    LET highbits == MemAt(m, p)
        lowbits == IF p = 4095 THEN MemAt(m, ProgStart) ELSE MemAt(m, p + 1)
    IN highbits * 256 + lowbits

sp_addr(s) == MemAt(s.memory, s.sp) * 256 + MemAt(s.memory, s.sp + 1)

\* (a return that leaves the stack pointer where it is)
ret_keeps_sp(s) == [s EXCEPT !.pc = sp_addr(s)]

ret(s) ==
    LET s1 == [s EXCEPT !.pc = sp_addr(s)]
    IN SetSp(s1, s1.sp - 2)

\* (a jump that does not make up for the pc += 2 to come)
Jump1nnn_no_minus_two(s, opcode) == SetPc(s, OpNNN(opcode))

Jump1nnn(s, opcode) == SetPc(s, OpNNN(opcode) - 2)

Call2nnn(s, opcode) ==
    LET lowbits == s.pc % 256
        highbits == s.pc \div 256
        s1 == SetSp(s, s.sp + 2)
        s2 == SetMem(s1, s1.sp, highbits)
        s3 == SetMem(s2, s2.sp + 1, lowbits)
    IN IF s1.fault THEN s1 ELSE SetPc(s3, OpNNN(opcode) - 2)

Skip(s, cond) == IF cond THEN SetPc(s, s.pc + 2) ELSE s

Add8xy4(s, x, y) ==
    LET res == s.vS[x] + s.vS[y]
        s1 == IF res > 255 THEN SetV(s, 15, 1) ELSE s
    IN SetV(s1, x, res % 256)

Sub8xy5(s, x, y) ==
    LET s1 == IF s.vS[x] > s.vS[y] THEN SetV(s, 15, 1) ELSE s
    IN SetV(s1, x, (s1.vS[x] - s1.vS[y]) % 256)

Shr8xy6(s, x, y) ==
    LET y_val == s.vS[y]
    IN SetV(SetV(s, 15, y_val % 2), x, y_val \div 2)

Subn8xy7(s, x, y) ==
    LET x_val == s.vS[x]
        y_val == s.vS[y]
    IN SetV(SetV(s, 15, IF x_val > y_val THEN 0 ELSE 1), x, (y_val - x_val) % 256)

Shl8xyE(s, x, y) ==
    LET y_val == s.vS[y]
    IN SetV(SetV(s, 15, y_val \div 128), x, (y_val * 2) % 256)

Alu8xyn(s, opcode) ==
    LET x == OpX(opcode)
        y == OpY(opcode)
        ending == OpN(opcode)
    IN CASE ending = 0 -> SetV(s, x, s.vS[y])
         [] ending = 1 -> SetV(s, x, BitOr(s.vS[x], s.vS[y]))
         [] ending = 2 -> SetV(s, x, BitAnd(s.vS[x], s.vS[y]))
         [] ending = 3 -> SetV(s, x, BitXor(s.vS[x], s.vS[y]))
         [] ending = 4 -> Add8xy4(s, x, y)
         [] ending = 5 -> Sub8xy5(s, x, y)
         [] ending = 6 -> Shr8xy6(s, x, y)
         [] ending = 7 -> Subn8xy7(s, x, y)
         [] ending = 14 -> Shl8xyE(s, x, y)
         [] OTHER -> s

\* (a tens digit taken without the modulo)
Bcd_Fx33_tens_over(s, x) ==
    LET val == s.vS[x]
        s1 == SetMem(s, s.i, val \div 100)
        s2 == SetMem(s1, s.i + 1, val \div 10)
        s3 == SetMem(s2, s.i + 2, val % 10)
    IN IF s1.fault THEN s1 ELSE IF s2.fault THEN s2 ELSE s3

Bcd_Fx33(s, x) ==
    LET val == s.vS[x]
        ones == val % 10
        tens == (val \div 10) % 10
        huns == val \div 100
        s1 == SetMem(s, s.i, huns)
        s2 == SetMem(s1, s.i + 1, tens)
        s3 == SetMem(s2, s.i + 2, ones)
    IN IF s1.fault THEN s1 ELSE IF s2.fault THEN s2 ELSE s3

RECURSIVE Store_Fx55(_, _, _)
Store_Fx55(s, x, idx) ==
    IF idx > x THEN s
    ELSE IF s.i + idx >= MemSize THEN Panic(s)
    ELSE Store_Fx55(SetMem(s, s.i + idx, s.vS[idx]), x, idx + 1)

RECURSIVE Load_Fx65(_, _, _)
Load_Fx65(s, x, idx) ==
    IF idx > x THEN SetI(s, s.i + x + 1)
    ELSE IF s.i + idx >= MemSize THEN Panic(s)
    ELSE Load_Fx65(SetV(s, idx, MemAt(s.memory, s.i + idx)), x, idx + 1)

\* the opcodes whose arm of cycle's match awaits an actor, or does not return
IsClear(opcode) == opcode = 224
IsDraw(opcode) == OpTop(opcode) = 13
\* (a decoder that asks the keypad on every Exkk)
IsKeyOp_any_kk(opcode) == OpTop(opcode) = 14

IsKeyOp(opcode) == OpTop(opcode) = 14 /\ OpKK(opcode) \in {158, 161}
IsGetDelay(opcode) == OpTop(opcode) = 15 /\ OpKK(opcode) = 7
IsWaitKey(opcode) == OpTop(opcode) = 15 /\ OpKK(opcode) = 10
IsSetDelay(opcode) == OpTop(opcode) = 15 /\ OpKK(opcode) = 21
IsSetSound(opcode) == OpTop(opcode) = 15 /\ OpKK(opcode) = 24
IsRandom(opcode) == OpTop(opcode) = 12
IsAsync(opcode) ==
    \/ IsClear(opcode) \/ IsDraw(opcode) \/ IsKeyOp(opcode) \/ IsGetDelay(opcode)
    \/ IsWaitKey(opcode) \/ IsSetDelay(opcode) \/ IsSetSound(opcode) \/ IsRandom(opcode)

\* the arms of cycle's match that touch the registers alone
ExecSync(s, opcode) ==
    LET top == OpTop(opcode)
        x == OpX(opcode)
        y == OpY(opcode)
        kk == OpKK(opcode)
    IN CASE opcode = 238 -> ret(s)
         [] top = 1 -> Jump1nnn(s, opcode)
         [] top = 2 -> Call2nnn(s, opcode)
         [] top = 3 -> Skip(s, s.vS[x] = kk)
         [] top = 4 -> Skip(s, s.vS[x] # kk)
         [] top = 5 -> IF OpN(opcode) # 0 THEN s ELSE Skip(s, s.vS[x] = s.vS[y])
         [] top = 6 -> SetV(s, x, kk)
         [] top = 7 -> SetV(s, x, (s.vS[x] + kk) % 256)
         [] top = 8 -> Alu8xyn(s, opcode)
         [] top = 9 -> IF OpN(opcode) # 0 THEN s ELSE Skip(s, s.vS[x] # s.vS[y])
         [] top = 10 -> [s EXCEPT !.i = OpNNN(opcode)]
         [] top = 11 -> [s EXCEPT !.pc = OpNNN(opcode) + s.vS[0]]
         [] top = 15 /\ kk = 30 -> SetI(s, s.i + s.vS[x])
         [] top = 15 /\ kk = 41 -> [s EXCEPT !.i = FontBase + 5 * s.vS[x]]
         [] top = 15 /\ kk = 51 -> Bcd_Fx33(s, x)
         [] top = 15 /\ kk = 85 -> Store_Fx55(s, x, 0)
         [] top = 15 /\ kk = 101 -> Load_Fx65(s, x, 0)
         [] OTHER -> s

\* "Increment the program counter", the last statement of cycle
IncPc(s) == IF s.fault THEN s ELSE SetPc(s, s.pc + 2)


(***************************************************************************)
(* Channels.                                                               *)
(***************************************************************************)
\* mpsc Sender::send(msg).await: waits for room; an Err (receiver gone) is dropped
CanSend(q, up) == up => Len(q) < ChanCap

\* (a channel that hands the newest message over first)
Sent_newest_first(q, up, msg) == IF up THEN <<msg>> \o q ELSE q

Sent(q, up, msg) == IF up THEN Append(q, msg) ELSE q

\* broadcast Sender::send on the Fuse's channel: Err when no receiver is left,
\* else the value takes the slot
FuseSendOk == fuse_rx
FuseSend(msg) ==
    IF fuse_rx
    THEN /\ fuse_slot' = msg
         /\ fuse_unread' = Min(fuse_unread + 1, FuseCap + 1)
         /\ fuse_rx' = fuse_rx
    ELSE UNCHANGED fuseVars

Counters == {"delay", "sound"}

NoDraw == [tx |-> 0, ty |-> 0, bytes |-> <<>>, row |-> 0, col |-> 0, collision |-> 0]

NoSet == [new_value |-> 0, done |-> FALSE, age |-> 0]
NoGot == [count |-> 0, answered |-> FALSE, fresh |-> FALSE, late |-> FALSE]

NoFrame == [from |-> -1, sp |-> -1]
NoStatus == [key |-> -1, flag |-> FALSE, was_down |-> FALSE]

\* no clock rate was given: main has its frequency
NoSpeed == [number |-> 0, unit |-> <<>>, state |-> "none", hertz |-> 0, secs |-> 0]

NoHist ==
    [ speed |-> NoSpeed,      \* the clock rate of the command line: its number
                              \* in thousandths, its unit, whether cli_args has
                              \* parsed it, and the frequency and the interval
                              \* (in nanoseconds) it made of it
      blown |-> FALSE,        \* blow() has been called
      alive_after |-> "none", \* what the last alive() called after blow() returned
      op |-> -1,              \* the opcode of the last instruction executed
      told |-> FALSE,         \* that instruction has sent a message to an actor
      loaded |-> FALSE,       \* a LoadROM was handled and no ExecStart or
                              \* ExecToggle has been since
      status |-> NoStatus,    \* the last Status query the keypad handled: its
                              \* key, the flag of that key at that moment, and
                              \* whether the key was in down then
      down |-> {},            \* the keys whose last KeyDown or KeyUp handled
                              \* was a KeyDown
      calls |-> <<>>,         \* the calls not yet returned from, oldest first:
                              \* the address of each 2nnn and sp before it
      back |-> NoFrame,       \* the call the last 00EE returned from
      deep |-> FALSE,         \* calls have nested deeper than MaxDepth
      sent |-> [c \in Counters |-> NoSet],
                              \* per Counter, the last set the interpreter sent
      set |-> [c \in Counters |-> NoSet],
                              \* per Counter, the last set handled
                              \* (age: the periods of the 60Hz clock since, up to 10)
      got |-> [c \in Counters |-> NoGot],
                              \* per Counter, the last get answered since that set
                              \* (fresh: no period had passed since the set was
                              \* sent, late: 10 or more had since it was handled)
      draws |-> <<>>,         \* the last two draws, oldest first
      cleared |-> FALSE,      \* the interpreter has executed 00E0
      lit_since |-> {},       \* the cells set lit since 00E0 was last executed
                              \* and since a Clear was last handled
      wiped |-> {},           \* the cells the Clear last handled found lit
      query |-> [x |-> 0, y |-> 0, post |-> FALSE, reply |-> "none", was_set |-> FALSE],
                              \* the last get-pixel: sent after 00E0?, its answer,
                              \* and whether its cell was in lit_since then
      pre |-> [memory |-> EmptyMem, vS |-> [r \in 0..15 |-> 0], i |-> 0,
               pc |-> 0, sp |-> 0, fault |-> FALSE] ] \* the registers before it

(***************************************************************************)
(* Init: main() has built the actors and init_chip8 has loaded the font    *)
(* and the ROM; nothing has run yet.                                       *)
(***************************************************************************)
Built(roms, checks, ops) ==
    /\ \E rom \in roms : memory = init_memory(rom)
    /\ vS = [r \in 0..15 |-> 0]
    /\ i = FontBase
    /\ pc = ProgStart
    /\ sp = 0
    /\ running = FALSE
    /\ c8_pc = "alive"
    /\ drw = NoDraw
    /\ exec = <<>>
    /\ mem = {}
    /\ vram_q = <<>>
    /\ vram_up = TRUE
    /\ pixel_resp = <<>>
    /\ frame_resp = <<>>
    /\ keypad = [k \in 0..15 |-> FALSE]
    /\ input_q = <<>>
    /\ input_pc = "tick"
    /\ input_ival = 0
    /\ status_resp = <<>>
    /\ value = [c \in Counters |-> 0]
    /\ counter_q = [c \in Counters |-> <<>>]
    /\ counter_pc = [c \in Counters |-> "tick"]
    /\ counter_ival = [c \in Counters |-> 0]
    /\ count_resp = [c \in Counters |-> <<>>]
    /\ fuse_slot = "none"
    /\ fuse_unread = 0
    /\ fuse_rx = TRUE
    /\ fe_pc = "loop"
    /\ fe_ops = ops
    /\ now = 0
    /\ overflow_checks \in checks

InitWith(roms, checks, ops) == Built(roms, checks, ops) /\ hist = NoHist

(***************************************************************************)
(* The Fuse watcher, run_fuse.                                             *)
(***************************************************************************)
\* (a watcher that takes Err(Lagged) for the end, as it takes Blow)
run_fuse_ends_on_lag ==
    /\ fuse_rx
    /\ fuse_unread > 0
    /\ IF fuse_unread > FuseCap
       THEN /\ fuse_unread' = FuseCap
            /\ fuse_rx' = FALSE
            /\ UNCHANGED fuse_slot
       ELSE /\ fuse_unread' = fuse_unread - 1
            /\ fuse_rx' = (fuse_slot # "Blow")
            /\ UNCHANGED fuse_slot
    /\ UNCHANGED <<chipVars, vramVars, inputVars, counterVars, frontVars,
                   now, overflow_checks, hist>>

\* one recv().await and the match on it: Lagged and Alive continue, Blow breaks
\* and drops the receiver
run_fuse ==
    /\ fuse_rx
    /\ fuse_unread > 0
    /\ IF fuse_unread > FuseCap
       THEN /\ fuse_unread' = FuseCap
            /\ UNCHANGED <<fuse_slot, fuse_rx>>
       ELSE /\ fuse_unread' = fuse_unread - 1
            /\ fuse_rx' = (fuse_slot # "Blow")
            /\ UNCHANGED fuse_slot
    /\ UNCHANGED <<chipVars, vramVars, inputVars, counterVars, frontVars,
                   now, overflow_checks, hist>>

\* what an alive() that returns r adds to the history
NoteAlive(r) ==
    IF hist.blown THEN [hist EXCEPT !.alive_after = IF r THEN "true" ELSE "false"]
    ELSE hist

(***************************************************************************)
(* The driver, run_chip8.                                                  *)
(***************************************************************************)
\* while fuse.alive()
DriverAlive ==
    /\ c8_pc = "alive"
    /\ FuseSend("Alive")
    /\ c8_pc' = IF FuseSendOk THEN "tick" ELSE "exited"
    /\ hist' = NoteAlive(FuseSendOk)
    /\ UNCHANGED <<memory, vS, i, pc, sp, running, drw, exec, vramVars, inputVars,
                   counterVars, frontVars, now, overflow_checks>>

\* (a turn that goes from the tick straight to try_recv)
DriverTick_skips_cycle ==
    /\ c8_pc = "tick"
    /\ c8_pc' = "try_recv"
    /\ UNCHANGED <<memory, vS, i, pc, sp, running, drw, exec, vramVars, inputVars,
                   counterVars, fuseVars, frontVars, now, overflow_checks, hist>>

\* ival.tick().await
DriverTick ==
    /\ c8_pc = "tick"
    /\ c8_pc' = "cycle"
    /\ UNCHANGED <<memory, vS, i, pc, sp, running, drw, exec, vramVars, inputVars,
                   counterVars, fuseVars, frontVars, now, overflow_checks, hist>>

\* (a handler whose ExecStop leaves pc where it is and whose ExecToggle starts)
handle_message_stop_keeps_pc(msg) ==
    CASE msg.type \in {"ExecPause", "ExecStop"} ->
            /\ running' = FALSE
            /\ UNCHANGED <<memory, pc>>
      [] msg.type \in {"ExecStart", "ExecToggle"} ->
            /\ running' = TRUE
            /\ UNCHANGED <<memory, pc>>
      [] msg.type = "LoadROM" ->
            /\ memory' = load_bytes_at(memory, msg.rom, ProgStart)
            /\ pc' = ProgStart
            /\ UNCHANGED running

\* Chip8::handle_message
handle_message(msg) ==
    CASE msg.type = "ExecPause" ->
            /\ running' = FALSE
            /\ UNCHANGED <<memory, pc>>
      [] msg.type = "ExecStop" ->
            /\ running' = FALSE
            /\ pc' = ProgStart
            /\ UNCHANGED memory
      [] msg.type = "ExecStart" ->
            /\ running' = TRUE
            /\ UNCHANGED <<memory, pc>>
      [] msg.type = "ExecToggle" ->
            /\ running' = ~running
            /\ UNCHANGED <<memory, pc>>
      [] msg.type = "LoadROM" ->
            /\ memory' = load_bytes_at(memory, msg.rom, ProgStart)
            /\ pc' = ProgStart
            /\ UNCHANGED running

\* history: the interpreter handles msg
NoteExec(msg) ==
    CASE msg.type = "LoadROM" -> [hist EXCEPT !.loaded = TRUE]
      [] msg.type \in {"ExecStart", "ExecToggle"} -> [hist EXCEPT !.loaded = FALSE]
      [] OTHER -> hist

\* if let Ok(msg) = c8.exec.try_recv() { c8.handle_message(msg) }
DriverTryRecv ==
    /\ c8_pc = "try_recv"
    /\ c8_pc' = "alive"
    /\ IF exec = <<>>
       THEN UNCHANGED <<memory, pc, running, exec, hist>>
       ELSE /\ handle_message(Head(exec))
            /\ exec' = Tail(exec)
            /\ hist' = NoteExec(Head(exec))
    /\ UNCHANGED <<vS, i, sp, drw, vramVars, inputVars, counterVars, fuseVars,
                   frontVars, now, overflow_checks>>

(***************************************************************************)
(* Chip8::cycle.                                                           *)
(***************************************************************************)
\* (a fetch at whatever pc holds)
FetchPc_no_wrap == pc

\* "fetch": a pc beyond memory restarts at 0x200
FetchPc == IF pc >= MemSize THEN ProgStart ELSE pc
Opcode == Fetch(memory, FetchPc)
AtFetch == [Cpu EXCEPT !.pc = FetchPc]

\* the registers take the values of s; a panic ends the task
CommitTo(s, where) ==
    /\ memory' = s.memory
    /\ vS' = s.vS
    /\ i' = s.i
    /\ pc' = s.pc
    /\ sp' = s.sp
    /\ c8_pc' = IF s.fault THEN "panicked" ELSE where

\* ... and cycle has returned
Commit(s) == CommitTo(s, "try_recv")

NoteOp == [hist EXCEPT !.op = Opcode, !.pre = AtFetch, !.told = FALSE]

\* ... and the calls open after an instruction that left the registers as s
NoteCall(s) ==
    LET h == NoteOp
    IN IF s.fault \/ h.deep THEN h
       ELSE IF OpTop(Opcode) = 2
       THEN IF Len(h.calls) < MaxDepth
            THEN [h EXCEPT !.calls = Append(@, [from |-> FetchPc, sp |-> sp])]
            ELSE [h EXCEPT !.deep = TRUE]
       ELSE IF Opcode = 238
       THEN IF h.calls = <<>>
            THEN [h EXCEPT !.back = NoFrame]
            ELSE [h EXCEPT !.back = h.calls[Len(h.calls)],
                           !.calls = SubSeq(@, 1, Len(@) - 1)]
       ELSE h

\* (a cycle that steps over the instruction while self.running is false)
CycleIdle_steps_over ==
    /\ c8_pc = "cycle"
    /\ ~running
    /\ c8_pc' = "try_recv"
    /\ pc' = FetchPc + 2
    /\ UNCHANGED <<memory, vS, i, sp, running, drw, exec, vramVars, inputVars,
                   counterVars, fuseVars, frontVars, now, overflow_checks, hist>>

\* if self.running is false, cycle does nothing
CycleIdle ==
    /\ c8_pc = "cycle"
    /\ ~running
    /\ c8_pc' = "try_recv"
    /\ UNCHANGED <<memory, vS, i, pc, sp, running, drw, exec, vramVars, inputVars,
                   counterVars, fuseVars, frontVars, now, overflow_checks, hist>>

\* an instruction that touches the registers alone
CycleSync ==
    /\ c8_pc = "cycle"
    /\ running
    /\ ~IsAsync(Opcode)
    /\ Commit(IncPc(ExecSync(AtFetch, Opcode)))
    /\ hist' = NoteCall(IncPc(ExecSync(AtFetch, Opcode)))
    /\ UNCHANGED <<running, drw, exec, vramVars, inputVars, counterVars, fuseVars,
                   frontVars, now, overflow_checks>>


\* Cxkk: Vx = random byte AND kk
CycleRandom ==
    /\ c8_pc = "cycle"
    /\ running
    /\ IsRandom(Opcode)
    /\ \E rand_byte \in {0, 85, 170, 255} :
          Commit(IncPc(SetV(AtFetch, OpX(Opcode), BitAnd(rand_byte, OpKK(Opcode)))))
    /\ hist' = NoteOp
    /\ UNCHANGED <<running, drw, exec, vramVars, inputVars, counterVars, fuseVars,
                   frontVars, now, overflow_checks>>

\* Fx0A: todo!("Waiting for input") panics
CycleWaitKey ==
    /\ c8_pc = "cycle"
    /\ running
    /\ IsWaitKey(Opcode)
    /\ Commit(Panic(AtFetch))
    /\ hist' = NoteOp
    /\ UNCHANGED <<running, drw, exec, vramVars, inputVars, counterVars, fuseVars,
                   frontVars, now, overflow_checks>>

VMsg(type, x, y, val) == [type |-> type, x |-> x, y |-> y, value |-> val]

\* 00E0: self.video.clear_screen().await
CycleClear ==
    /\ c8_pc = "cycle"
    /\ running
    /\ IsClear(Opcode)
    /\ CanSend(vram_q, vram_up)
    /\ vram_q' = Sent(vram_q, vram_up, VMsg("Clear", 0, 0, FALSE))
    /\ Commit(IncPc(AtFetch))
    /\ hist' = [NoteOp EXCEPT !.cleared = TRUE, !.lit_since = {}, !.told = TRUE]
    /\ UNCHANGED <<running, drw, exec, mem, vram_up, pixel_resp, frame_resp, inputVars,
                   counterVars, fuseVars, frontVars, now, overflow_checks>>

(***************************************************************************)
(* Dxyn and Chip8::draw.                                                   *)
(***************************************************************************)
\* the sprite: memory[i .. i+n-1]
Sprite(s, n) == [k \in 1..n |-> MemAt(s.memory, s.i + k - 1)]

\* masks[col] & b > 0
SpriteBit(b, col) == (b \div (2 ^ (7 - col))) % 2 = 1

\* (a column counted from one, not wrapped)
DrawX_one_right(d) == d.tx + d.col + 1

\* the pixel the loop of draw stands at
DrawX(d) == (d.tx + d.col) % ScreenW
DrawY(d) == (d.row + d.ty) % ScreenH

\* (a row that goes on past the right edge)
RowEnds_no_edge(d) == d.col = 7

\* draw's two break tests: the row ends at the last column or at the right
\* edge, the sprite at its last row or at the bottom edge
RowEnds(d) == d.col = 7 \/ DrawX(d) + 1 = ScreenW
SpriteEnds(d) == d.row + 1 = Len(d.bytes) \/ DrawY(d) + 1 = ScreenH

\* (a draw that leaves VF alone)
DrawDone_keeps_vf(s, collision) == IncPc(s)

\* self.vS[15] = collision, then cycle's pc += 2
DrawDone(s, collision) == IncPc(SetV(s, 15, collision))

\* (a Clear that has done the upper half of the rows only)
ClearCells_upper_half == (0..(ScreenW - 1)) \X (0..((ScreenH \div 2) - 1))

\* the cells Clear's two loops set to false
ClearCells == (0..(ScreenW - 1)) \X (0..(ScreenH - 1))

\* (a SetPixel that can only light a pixel)
GridAfter_lights_only(g, msg) ==
    CASE msg.type = "Clear" -> g \ ClearCells
      [] msg.type = "SetPixel" -> g \cup {<<msg.x, msg.y>>}
      [] OTHER -> g

\* VRAM::handle_message on the grid g: what SetPixel and Clear leave of it
GridAfter(g, msg) ==
    CASE msg.type = "Clear" -> g \ ClearCells
      [] msg.type = "SetPixel" ->
            IF msg.value THEN g \cup {<<msg.x, msg.y>>} ELSE g \ {<<msg.x, msg.y>>}
      [] OTHER -> g

\* the grid once every message of q has been handled
RECURSIVE GridAfterAll(_, _)
GridAfterAll(g, q) ==
    IF q = <<>> THEN g ELSE GridAfterAll(GridAfter(g, Head(q)), Tail(q))

\* history: a draw starts. grid0 is the grid it will find, foreign whether
\* another client has written since, adjacent whether the instruction
\* before it was a draw too
NoteDraw ==
    LET s == AtFetch
        n == OpN(Opcode)
        ok == ~(n > 0 /\ s.i + n - 1 >= MemSize)
        d == [op |-> Opcode, vx |-> s.vS[OpX(Opcode)], vy |-> s.vS[OpY(Opcode)],
              bytes |-> IF ok THEN Sprite(s, n) ELSE <<>>,
              grid0 |-> GridAfterAll(mem, vram_q),
              foreign |-> FALSE,
              adjacent |-> hist.op # -1 /\ IsDraw(hist.op),
              done |-> ok /\ n = 0]
    IN [NoteOp EXCEPT !.draws = IF @ = <<>> THEN <<d>> ELSE <<@[Len(@)], d>>]

\* the arm of Dxyn up to the first get_pixel of draw
CycleDraw ==
    /\ c8_pc = "cycle"
    /\ running
    /\ IsDraw(Opcode)
    /\ LET s == AtFetch
           n == OpN(Opcode)
           vx == s.vS[OpX(Opcode)]
           vy == s.vS[OpY(Opcode)]
       IN IF n > 0 /\ s.i + n - 1 >= MemSize
          THEN /\ Commit(Panic(s))
               /\ drw' = NoDraw
          ELSE IF n = 0
          THEN /\ Commit(DrawDone(s, 0))
               /\ drw' = NoDraw
          ELSE /\ CommitTo(s, "draw_get")
               /\ drw' = [tx |-> vx % ScreenW, ty |-> vy % ScreenH,
                          bytes |-> Sprite(s, n), row |-> 0, col |-> 0, collision |-> 0]
    /\ hist' = NoteDraw
    /\ UNCHANGED <<running, exec, vramVars, inputVars, counterVars, fuseVars,
                   frontVars, now, overflow_checks>>


LastDraw(h, f, v) == [h EXCEPT !.draws[Len(h.draws)][f] = v]

\* self.video.get_pixel(x, y): the send
DrawGet ==
    /\ c8_pc = "draw_get"
    /\ CanSend(vram_q, vram_up)
    /\ vram_q' = Sent(vram_q, vram_up, VMsg("GetPixel", DrawX(drw), DrawY(drw), FALSE))
    /\ c8_pc' = "draw_wait"
    /\ hist' = [hist EXCEPT !.query = [x |-> DrawX(drw), y |-> DrawY(drw),
                                       post |-> hist.cleared, reply |-> "none",
                                       was_set |-> FALSE],
                            !.told = TRUE]
    /\ UNCHANGED <<memory, vS, i, pc, sp, running, drw, exec, mem, vram_up, pixel_resp,
                   frame_resp, inputVars, counterVars, fuseVars, frontVars, now,
                   overflow_checks>>

\* the answer to get_pixel, the set_pixel it leads to, and the loop's step to
\* the next pixel or out of draw
DrawPut ==
    /\ c8_pc = "draw_wait"
    /\ pixel_resp # <<>>
    /\ LET cur_value == pixel_resp[1]
           bit == SpriteBit(drw.bytes[drw.row + 1], drw.col)
           collision == IF bit /\ cur_value THEN 1 ELSE drw.collision
       IN /\ pixel_resp' = <<>>
          /\ IF bit
             THEN /\ CanSend(vram_q, vram_up)
                  /\ vram_q' = Sent(vram_q, vram_up,
                                    VMsg("SetPixel", DrawX(drw), DrawY(drw), ~cur_value))
             ELSE UNCHANGED vram_q
          /\ IF RowEnds(drw) /\ SpriteEnds(drw)
             THEN /\ Commit(DrawDone(Cpu, collision))
                  /\ drw' = NoDraw
                  /\ hist' = LastDraw(hist, "done", TRUE)
             ELSE /\ c8_pc' = "draw_get"
                  /\ drw' = IF RowEnds(drw)
                            THEN [drw EXCEPT !.row = @ + 1, !.col = 0,
                                             !.collision = collision]
                            ELSE [drw EXCEPT !.col = @ + 1, !.collision = collision]
                  /\ UNCHANGED <<memory, vS, i, pc, sp, hist>>
    /\ UNCHANGED <<running, exec, mem, vram_up, frame_resp, inputVars, counterVars,
                   fuseVars, frontVars, now, overflow_checks>>

\* recv.recv().await.unwrap() when the VRAM task is gone: a panic
DrawFail ==
    /\ c8_pc = "draw_wait"
    /\ pixel_resp = <<>>
    /\ ~vram_up
    /\ c8_pc' = "panicked"
    /\ UNCHANGED <<memory, vS, i, pc, sp, running, drw, exec, vramVars, inputVars,
                   counterVars, fuseVars, frontVars, now, overflow_checks, hist>>

(***************************************************************************)
(* The VideoMemory actor, vram_runner.                                     *)
(***************************************************************************)
InGrid(x, y) == x < ScreenW /\ y < ScreenH

\* one recv and VRAM::handle_message; an index outside the grid panics, and
\* the channel goes with the task
VramHandle ==
    /\ vram_up
    /\ vram_q # <<>>
    /\ LET msg == Head(vram_q)
           cell == <<msg.x, msg.y>>
       IN CASE msg.type = "Get" ->
                 /\ frame_resp' = <<mem>>
                 /\ vram_q' = Tail(vram_q)
                 /\ UNCHANGED <<mem, vram_up, pixel_resp, hist>>
            [] msg.type = "Clear" ->
                 /\ mem' = GridAfter(mem, msg)
                 /\ vram_q' = Tail(vram_q)
                 /\ hist' = [hist EXCEPT !.lit_since = {}, !.wiped = mem]
                 /\ UNCHANGED <<vram_up, pixel_resp, frame_resp>>
            [] msg.type \in {"GetPixel", "SetPixel"} /\ ~InGrid(msg.x, msg.y) ->
                 /\ vram_up' = FALSE
                 /\ vram_q' = <<>>
                 /\ UNCHANGED <<mem, pixel_resp, frame_resp, hist>>
            [] msg.type = "GetPixel" /\ InGrid(msg.x, msg.y) ->
                 /\ pixel_resp' = <<cell \in mem>>
                 /\ vram_q' = Tail(vram_q)
                 /\ hist' = [hist EXCEPT !.query.reply = IF cell \in mem THEN "true"
                                                          ELSE "false",
                                         !.query.was_set = cell \in hist.lit_since]
                 /\ UNCHANGED <<mem, vram_up, frame_resp>>
            [] msg.type = "SetPixel" /\ InGrid(msg.x, msg.y) ->
                 /\ mem' = GridAfter(mem, msg)
                 /\ vram_q' = Tail(vram_q)
                 /\ hist' = [hist EXCEPT !.lit_since = IF msg.value THEN @ \cup {cell}
                                                        ELSE @]
                 /\ UNCHANGED <<vram_up, pixel_resp, frame_resp>>
    /\ UNCHANGED <<chipVars, inputVars, counterVars, fuseVars, frontVars, now,
                   overflow_checks>>


(***************************************************************************)
(* The 60Hz clock.                                                         *)
(***************************************************************************)
Older(r) == IF r.done THEN [r EXCEPT !.age = Min(@ + 1, 10)] ELSE r

Tick60 ==
    /\ now < MaxTime
    /\ now' = now + 1
    /\ hist' = [hist EXCEPT !.sent = [c \in Counters |-> Older(@[c])],
                            !.set = [c \in Counters |-> Older(@[c])]]
    /\ UNCHANGED <<chipVars, vramVars, inputVars, counterVars, fuseVars, frontVars,
                   overflow_checks>>

(***************************************************************************)
(* The Counter actors, run_counter.                                        *)
(***************************************************************************)
CMsg(type, v) == [type |-> type, new_value |-> v]

\* ival.tick().await, MissedTickBehavior::Burst: the next tick is due one
\* period after this one was
CounterTick(c) ==
    /\ counter_pc[c] = "tick"
    /\ now >= counter_ival[c]
    /\ counter_ival' = [counter_ival EXCEPT ![c] = @ + 1]
    /\ counter_pc' = [counter_pc EXCEPT ![c] = "recv"]
    /\ UNCHANGED <<chipVars, vramVars, inputVars, value, counter_q, count_resp,
                   fuseVars, frontVars, now, overflow_checks, hist>>

\* (a Counter that keeps the count it has when a set arrives)
Handled_first_set_wins(v, msg) ==
    IF msg.type = "SetCount" /\ v = 0 THEN msg.new_value ELSE v

\* Counter::handle_message: the value once msg is handled
Handled(v, msg) == IF msg.type = "SetCount" THEN msg.new_value ELSE v

\* (a count-down without the test, in u8 without overflow checks)
CountDown_untested(v) == (v - 1) % 256

\* the rest of the loop body: if counter.value > 0 { counter.value -= 1 }
CountDown(v) == IF v > 0 THEN v - 1 ELSE v

\* history: the Counter c handles msg
NoteCounter(c, msg) ==
    IF msg.type = "SetCount"
    THEN [hist EXCEPT !.set[c] = [new_value |-> msg.new_value, done |-> TRUE, age |-> 0],
                      !.got[c] = NoGot]
    ELSE [hist EXCEPT !.got[c] = [count |-> value[c], answered |-> TRUE,
                                  fresh |-> hist.sent[c].done /\ hist.sent[c].age = 0,
                                  late |-> hist.set[c].done /\ hist.set[c].age >= 10]]

\* the select! on recv(): one message is handled, then the count-down
CounterRecv(c) ==
    /\ counter_pc[c] = "recv"
    /\ counter_q[c] # <<>>
    /\ LET msg == Head(counter_q[c])
       IN /\ count_resp' = IF msg.type = "GetCount"
                           THEN [count_resp EXCEPT ![c] = <<value[c]>>]
                           ELSE count_resp
          /\ value' = [value EXCEPT ![c] = CountDown(Handled(value[c], msg))]
          /\ hist' = NoteCounter(c, msg)
    /\ counter_q' = [counter_q EXCEPT ![c] = Tail(@)]
    /\ counter_pc' = [counter_pc EXCEPT ![c] = "tick"]
    /\ UNCHANGED <<chipVars, vramVars, inputVars, counter_ival, fuseVars, frontVars,
                   now, overflow_checks>>

(***************************************************************************)
(* The keypad actor, run_input.                                            *)
(***************************************************************************)
IMsg(type, key) == [type |-> type, key |-> key]

\* ival.tick().await, MissedTickBehavior::Skip: the next tick is the first one
\* still ahead
InputTick ==
    /\ input_pc = "tick"
    /\ now >= input_ival
    /\ input_ival' = now + 1
    /\ input_pc' = "recv"
    /\ UNCHANGED <<chipVars, vramVars, keypad, input_q, status_resp, counterVars,
                   fuseVars, frontVars, now, overflow_checks, hist>>

\* (a keypad that ignores KeyUp)
KeypadAfter_no_up(pad, msg) ==
    IF msg.type = "KeyDown" THEN [pad EXCEPT ![msg.key] = TRUE] ELSE pad

\* Input::handle_message on the flags
KeypadAfter(pad, msg) ==
    CASE msg.type = "KeyDown" -> [pad EXCEPT ![msg.key] = TRUE]
      [] msg.type = "KeyUp" -> [pad EXCEPT ![msg.key] = FALSE]
      [] OTHER -> pad

\* history: the keypad handles msg
NoteStatus(msg) ==
    CASE msg.key > 15 -> hist
      [] msg.type = "Status" ->
            [hist EXCEPT !.status = [key |-> msg.key, flag |-> keypad[msg.key],
                                     was_down |-> msg.key \in hist.down]]
      [] msg.type = "KeyDown" -> [hist EXCEPT !.down = @ \cup {msg.key}]
      [] msg.type = "KeyUp" -> [hist EXCEPT !.down = @ \ {msg.key}]

\* the select! on recv() and Input::handle_message; keypad[key] with key > 15
\* panics, and the channel goes with the task
InputRecv ==
    /\ input_pc = "recv"
    /\ input_q # <<>>
    /\ LET msg == Head(input_q)
       IN IF msg.key > 15
          THEN /\ input_pc' = "panicked"
               /\ input_q' = <<>>
               /\ UNCHANGED <<keypad, status_resp>>
          ELSE /\ input_pc' = "tick"
               /\ input_q' = Tail(input_q)
               /\ keypad' = KeypadAfter(keypad, msg)
               /\ status_resp' = IF msg.type = "Status" THEN <<keypad[msg.key]>>
                                 ELSE status_resp
    /\ hist' = NoteStatus(Head(input_q))
    /\ UNCHANGED <<chipVars, vramVars, input_ival, counterVars, fuseVars, frontVars,
                   now, overflow_checks>>

InputUp == input_pc # "panicked"


(***************************************************************************)
(* The arms of cycle that call the keypad and the Counters.                *)
(***************************************************************************)
\* Ex9E / ExA1: self.input.pressed(key), the send
CycleKey ==
    /\ c8_pc = "cycle"
    /\ running
    /\ IsKeyOp(Opcode)
    /\ CanSend(input_q, InputUp)
    /\ input_q' = Sent(input_q, InputUp, IMsg("Status", vS[OpX(Opcode)]))
    /\ CommitTo(AtFetch, "key_wait")
    /\ hist' = [NoteOp EXCEPT !.told = TRUE]
    /\ UNCHANGED <<running, drw, exec, vramVars, keypad, input_pc, input_ival,
                   status_resp, counterVars, fuseVars, frontVars, now, overflow_checks>>

\* (both instructions skipping on a pressed key)
KeySkip_on_pressed(kk, pressed) == pressed

\* 9E skips when pressed, A1 when not
KeySkip(kk, pressed) == IF kk = 158 THEN pressed ELSE ~pressed

\* the answer
KeyRecv ==
    /\ c8_pc = "key_wait"
    /\ status_resp # <<>>
    /\ LET pressed == status_resp[1]
           skip == KeySkip(OpKK(Fetch(memory, pc)), pressed)
       IN Commit(IncPc(Skip(Cpu, skip)))
    /\ status_resp' = <<>>
    /\ UNCHANGED <<running, drw, exec, vramVars, keypad, input_q, input_pc, input_ival,
                   counterVars, fuseVars, frontVars, now, overflow_checks, hist>>

\* recv.await.unwrap() when the keypad task is gone: a panic
KeyFail ==
    /\ c8_pc = "key_wait"
    /\ status_resp = <<>>
    /\ ~InputUp
    /\ c8_pc' = "panicked"
    /\ UNCHANGED <<memory, vS, i, pc, sp, running, drw, exec, vramVars, inputVars,
                   counterVars, fuseVars, frontVars, now, overflow_checks, hist>>

\* Fx07: self.delay_timer.get(), the send
CycleGetDelay ==
    /\ c8_pc = "cycle"
    /\ running
    /\ IsGetDelay(Opcode)
    /\ Len(counter_q["delay"]) < ChanCap
    /\ counter_q' = [counter_q EXCEPT !["delay"] = Append(@, CMsg("GetCount", 0))]
    /\ CommitTo(AtFetch, "delay_wait")
    /\ hist' = [NoteOp EXCEPT !.told = TRUE]
    /\ UNCHANGED <<running, drw, exec, vramVars, inputVars, value, counter_pc,
                   counter_ival, count_resp, fuseVars, frontVars, now, overflow_checks>>

\* the answer goes to Vx
DelayRecv ==
    /\ c8_pc = "delay_wait"
    /\ count_resp["delay"] # <<>>
    /\ Commit(IncPc(SetV(Cpu, OpX(Fetch(memory, pc)), count_resp["delay"][1])))
    /\ count_resp' = [count_resp EXCEPT !["delay"] = <<>>]
    /\ UNCHANGED <<running, drw, exec, vramVars, inputVars, value, counter_q,
                   counter_pc, counter_ival, fuseVars, frontVars, now, overflow_checks,
                   hist>>

\* (one Counter behind both instructions)
TimerOf_shared(opcode) == "delay"

\* the Counter an Fx15 / Fx18 sets
TimerOf(opcode) == IF IsSetDelay(opcode) THEN "delay" ELSE "sound"

\* Fx15 / Fx18: self.delay_timer.set(Vx) / self.sound_timer.set(Vx)
CycleSetTimer ==
    /\ c8_pc = "cycle"
    /\ running
    /\ IsSetDelay(Opcode) \/ IsSetSound(Opcode)
    /\ LET c == TimerOf(Opcode)
       IN /\ Len(counter_q[c]) < ChanCap
          /\ counter_q' = [counter_q EXCEPT ![c] = Append(@, CMsg("SetCount", vS[OpX(Opcode)]))]
          /\ hist' = [NoteOp EXCEPT !.sent[c] = [new_value |-> vS[OpX(Opcode)],
                                                 done |-> TRUE, age |-> 0],
                                    !.told = TRUE]
    /\ Commit(IncPc(AtFetch))
    /\ UNCHANGED <<running, drw, exec, vramVars, inputVars, value, counter_pc,
                   counter_ival, count_resp, fuseVars, frontVars, now, overflow_checks>>

(***************************************************************************)
(* The front end, gui_loop: the calls it makes on the handles.             *)
(***************************************************************************)
EMsg(type, rom) == [type |-> type, rom |-> rom]

\* the exec channel's receiver lives in the driver task
ExecUp == c8_pc \notin {"exited", "panicked"}

\* (a Counter that lives as long as the Fuse's watcher does)
CounterHeld_while_fuse == fuse_rx

\* the CounterHandles: the Chip8 struct in the driver task holds a clone of
\* each, and so do the Chip8Handle and the audio handle that gui_loop owns
CounterHeld == ExecUp \/ fe_pc \notin {"done", "panicked"}

\* run_counter, the else branch of the select!: recv() gives None once every
\* sender is dropped and the channel is empty, and the loop is left
CounterEnd(c) ==
    /\ counter_pc[c] = "recv"
    /\ counter_q[c] = <<>>
    /\ ~CounterHeld
    /\ counter_pc' = [counter_pc EXCEPT ![c] = "ended"]
    /\ UNCHANGED <<chipVars, vramVars, inputVars, value, counter_q, counter_ival,
                   count_resp, fuseVars, frontVars, now, overflow_checks, hist>>

FrontCall == fe_pc = "loop" /\ fe_ops > 0

\* fuse.blow(): on Event::Quit the loop is left, from the menu's Exit it goes on
FrontBlow ==
    /\ FrontCall
    /\ FuseSend("Blow")
    /\ \E leaves \in BOOLEAN : fe_pc' = IF leaves THEN "done" ELSE "loop"
    /\ fe_ops' = fe_ops - 1
    /\ hist' = [hist EXCEPT !.blown = TRUE]
    /\ UNCHANGED <<chipVars, vramVars, inputVars, counterVars, now, overflow_checks>>

\* "Check fuse": if !fuse.alive() { break 'running }
FrontAlive ==
    /\ FrontCall
    /\ FuseSend("Alive")
    /\ fe_pc' = IF FuseSendOk THEN "loop" ELSE "done"
    /\ fe_ops' = fe_ops - 1
    /\ hist' = NoteAlive(FuseSendOk)
    /\ UNCHANGED <<chipVars, vramVars, inputVars, counterVars, now, overflow_checks>>

\* self.send.send(msg).await.unwrap(): panics when the driver is gone
ExecSend(msg, next) ==
    /\ ExecUp => Len(exec) < ChanCap
    /\ exec' = IF ExecUp THEN Append(exec, msg) ELSE exec
    /\ fe_pc' = IF ExecUp THEN next ELSE "panicked"

\* c8.toggle_exec() on Escape, c8.unpause() while no menu is shown
FrontExec ==
    /\ FrontCall
    /\ \E type \in {"ExecToggle", "ExecStart"} : ExecSend(EMsg(type, <<>>), "loop")
    /\ fe_ops' = fe_ops - 1
    /\ UNCHANGED <<memory, vS, i, pc, sp, running, c8_pc, drw, vramVars, inputVars,
                   counterVars, fuseVars, now, overflow_checks, hist>>

\* the four control messages of Chip8Message
ControlTypes == {"ExecPause", "ExecStop", "ExecStart", "ExecToggle"}

\* a holder of the Chip8Handle's sender sends any control message
FrontControl ==
    /\ FrontCall
    /\ \E type \in ControlTypes : ExecSend(EMsg(type, <<>>), "loop")
    /\ fe_ops' = fe_ops - 1
    /\ UNCHANGED <<memory, vS, i, pc, sp, running, c8_pc, drw, vramVars, inputVars,
                   counterVars, fuseVars, now, overflow_checks, hist>>

\* input.key_down(key) / input.key_up(key) for a mapped key
FrontKeyOf(keys) ==
    /\ FrontCall
    /\ CanSend(input_q, InputUp)
    /\ \E type \in {"KeyDown", "KeyUp"}, key \in keys :
          input_q' = Sent(input_q, InputUp, IMsg(type, key))
    /\ fe_ops' = fe_ops - 1
    /\ UNCHANGED <<chipVars, vramVars, keypad, input_pc, input_ival, status_resp,
                   counterVars, fuseVars, fe_pc, now, overflow_checks, hist>>

FrontKey == FrontKeyOf(0..15)

\* video.get(): the send
FrontGetFrame ==
    /\ FrontCall
    /\ CanSend(vram_q, vram_up)
    /\ vram_q' = Sent(vram_q, vram_up, VMsg("Get", 0, 0, FALSE))
    /\ fe_pc' = "wait_video"
    /\ fe_ops' = fe_ops - 1
    /\ UNCHANGED <<chipVars, mem, vram_up, pixel_resp, frame_resp, inputVars,
                   counterVars, fuseVars, now, overflow_checks, hist>>

\* ... and the snapshot
FrontFrame ==
    /\ fe_pc = "wait_video"
    /\ frame_resp # <<>>
    /\ frame_resp' = <<>>
    /\ fe_pc' = "loop"
    /\ UNCHANGED <<chipVars, mem, vram_q, vram_up, pixel_resp, inputVars, counterVars,
                   fuseVars, fe_ops, now, overflow_checks, hist>>

\* sound_timer.get(): the send
FrontGetSound ==
    /\ FrontCall
    /\ Len(counter_q["sound"]) < ChanCap
    /\ counter_q' = [counter_q EXCEPT !["sound"] = Append(@, CMsg("GetCount", 0))]
    /\ fe_pc' = "wait_audio"
    /\ fe_ops' = fe_ops - 1
    /\ UNCHANGED <<chipVars, vramVars, inputVars, value, counter_pc, counter_ival,
                   count_resp, fuseVars, now, overflow_checks, hist>>

\* ... and the count
FrontSound ==
    /\ fe_pc = "wait_audio"
    /\ count_resp["sound"] # <<>>
    /\ count_resp' = [count_resp EXCEPT !["sound"] = <<>>]
    /\ fe_pc' = "loop"
    /\ UNCHANGED <<chipVars, vramVars, inputVars, value, counter_q, counter_pc,
                   counter_ival, fuseVars, fe_ops, now, overflow_checks, hist>>

\* history: another client than the draws writes to the grid
NoteForeign == [hist EXCEPT !.draws = [k \in DOMAIN @ |-> [@[k] EXCEPT !.foreign = TRUE]]]

\* a ROM was chosen in the menu: video.clear_screen() ...
FrontClear ==
    /\ FrontCall
    /\ CanSend(vram_q, vram_up)
    /\ vram_q' = Sent(vram_q, vram_up, VMsg("Clear", 0, 0, FALSE))
    /\ fe_pc' = "load_rom"
    /\ fe_ops' = fe_ops - 1
    /\ hist' = NoteForeign
    /\ UNCHANGED <<chipVars, mem, vram_up, pixel_resp, frame_resp, inputVars,
                   counterVars, fuseVars, now, overflow_checks>>

\* ... c8.load_rom(rom) ...
FrontLoadRom(roms) ==
    /\ fe_pc = "load_rom"
    /\ \E rom \in roms : ExecSend(EMsg("LoadROM", rom), "unpause")
    /\ UNCHANGED <<memory, vS, i, pc, sp, running, c8_pc, drw, vramVars, inputVars,
                   counterVars, fuseVars, fe_ops, now, overflow_checks, hist>>

\* ... c8.unpause()
FrontUnpause ==
    /\ fe_pc = "unpause"
    /\ ExecSend(EMsg("ExecStart", <<>>), "loop")
    /\ UNCHANGED <<memory, vS, i, pc, sp, running, c8_pc, drw, vramVars, inputVars,
                   counterVars, fuseVars, fe_ops, now, overflow_checks, hist>>


(***************************************************************************)
(* ROMs.                                                                   *)
(***************************************************************************)
Op(top, x, y, n) == top * 4096 + x * 256 + y * 16 + n
OpLd(x, kk) == Op(6, x, 0, 0) + kk
OpJp(nnn) == Op(1, 0, 0, 0) + nnn
OpLdI(nnn) == Op(10, 0, 0, 0) + nnn
OpFx(x, kk) == Op(15, x, 0, 0) + kk
OpCall(nnn) == Op(2, 0, 0, 0) + nnn

\* the bytes of a sequence of opcodes, big-endian
RomOf(ops) == [k \in 1..(2 * Len(ops)) |->
                 IF k % 2 = 1 THEN ops[(k + 1) \div 2] \div 256 ELSE ops[k \div 2] % 256]

\* the address of the k-th opcode of a ROM (k from 0)
AddrOf(k) == ProgStart + 2 * k

\* a jump to itself as the k-th opcode: the program stays there
Halt(k) == OpJp(AddrOf(k))

SampleBytes == (0..MaxLow) \cup ((255 - MaxLow)..255) \cup {5, 127, 128}

(***************************************************************************)
(* SpecFuse: the Fuse, the driver loop on a ROM that jumps to itself, and  *)
(* a front end that blows the fuse, probes it and starts the interpreter.  *)
(***************************************************************************)
FuseRoms == {RomOf(<<Halt(0)>>)}

InitFuse == InitWith(FuseRoms, {TRUE}, MaxFrontOps)

Driver == DriverAlive \/ DriverTick \/ CycleIdle \/ CycleSync \/ DriverTryRecv

NextFuse == run_fuse \/ Driver \/ FrontBlow \/ FrontAlive \/ FrontExec

\* tokio runs every spawned task that can run: the watcher and the driver
SpecFuse == InitFuse /\ [][NextFuse]_vars /\ WF_vars(run_fuse) /\ WF_vars(Driver)

(***************************************************************************)
(* SpecAlu: the interpreter on ROMs that load Vx, Vy and VF and execute    *)
(* one 8xyN on them.                                                       *)
(***************************************************************************)
AluRegs == {<<0, 1>>, <<10, 11>>, <<2, 2>>, <<15, 1>>, <<1, 15>>}
AluOps == {4, 5}

AluRom(x, y, a, b, f, n) ==
    RomOf(<<OpLd(15, f), OpLd(x, a), OpLd(y, b), Op(8, x, y, n), Halt(4)>>)

AluRoms == {AluRom(r[1], r[2], a, b, f, n) :
              r \in AluRegs, a \in SampleBytes, b \in SampleBytes, f \in Bit, n \in AluOps}

InitAlu == InitWith(AluRoms, BOOLEAN, 1)

NextAlu == Driver \/ FrontExec

SpecAlu == InitAlu /\ [][NextAlu]_vars


(***************************************************************************)
(* SpecFlag: as SpecAlu, for the five 8xyN that write VF, with the flag     *)
(* register as x, as y and as both.                                        *)
(***************************************************************************)
FlagRegs == {<<0, 1>>, <<2, 2>>, <<15, 1>>, <<1, 15>>, <<15, 15>>}
FlagOps == {4, 5, 6, 7, 14}

FlagRoms == {AluRom(r[1], r[2], a, b, f, n) :
               r \in FlagRegs, a \in SampleBytes, b \in SampleBytes, f \in Bit, n \in FlagOps}

InitFlag == InitWith(FlagRoms, BOOLEAN, 1)

SpecFlag == InitFlag /\ [][NextAlu]_vars

(***************************************************************************)
(* SpecKey: the interpreter on ROMs that load a key into V1 and execute    *)
(* E19E or E1A1, the keypad actor, a few periods of the 60Hz clock, and a  *)
(* front end that starts the interpreter and sends key-downs and key-ups.  *)
(***************************************************************************)
KeyRom(k, kk) == RomOf(<<OpLd(1, k), Op(14, 1, 0, 0) + kk, Halt(2), Halt(3)>>)

KeyRoms == {KeyRom(k, kk) : k \in {0, 7, 15}, kk \in {158, 161}} \cup {KeyRom(16, 158)}

\* the keys the front end sends
KeyKeys == {7, 15}

InitKey == InitWith(KeyRoms, {TRUE}, MaxKeyOps)

\* the 60Hz clock, for MaxKeyTime periods
KeyTick == Tick60 /\ now < MaxKeyTime

NextKey ==
    \/ Driver \/ CycleKey \/ KeyRecv \/ KeyFail
    \/ InputTick \/ InputRecv
    \/ KeyTick
    \/ FrontExec \/ FrontKeyOf(KeyKeys)

SpecKey == InitKey /\ [][NextKey]_vars

(***************************************************************************)
(* SpecTimer: the interpreter on ROMs that set a Counter from VA and read  *)
(* the delay Counter into V0, the two Counters, the 60Hz clock, and a      *)
(* front end that starts the interpreter and polls the sound Counter.      *)
(***************************************************************************)
TimerValues == {5, 10}

TimerRom(v, kk) == RomOf(<<OpLd(10, v), OpFx(10, kk), OpFx(0, 7), Halt(3)>>)

TimerRoms == {TimerRom(v, kk) : v \in TimerValues, kk \in {21, 24}}

MaxTimerOps == 2

InitTimer == InitWith(TimerRoms, {TRUE}, MaxTimerOps)

NextTimer ==
    \/ Driver \/ CycleSetTimer \/ CycleGetDelay \/ DelayRecv
    \/ \E c \in Counters : CounterTick(c) \/ CounterRecv(c)
    \/ Tick60
    \/ FrontExec \/ FrontGetSound \/ FrontSound

SpecTimer == InitTimer /\ [][NextTimer]_vars

(***************************************************************************)
(* SpecCount: as SpecTimer, on ROMs that set a Counter to 0, 1, 2 or 255   *)
(* and read the delay Counter twice, for a few periods of the clock.       *)
(***************************************************************************)
CountRom(v, kk) ==
    RomOf(<<OpLd(10, v), OpFx(10, kk), OpFx(0, 7), OpFx(1, 7), Halt(4)>>)

CountRoms == {CountRom(v, kk) : v \in {0, 1, 2, 255}, kk \in {21, 24}}

InitCount == InitWith(CountRoms, {TRUE}, MaxCountOps)

\* the 60Hz clock, for MaxCountTime periods
CountTick == Tick60 /\ now < MaxCountTime

NextCount ==
    \/ Driver \/ CycleSetTimer \/ CycleGetDelay \/ DelayRecv
    \/ \E c \in Counters : CounterTick(c) \/ CounterRecv(c)
    \/ CountTick
    \/ FrontExec \/ FrontGetSound \/ FrontSound

SpecCount == InitCount /\ [][NextCount]_vars

(***************************************************************************)
(* util.rs: the clock rate of the command line.  A rate is a number, kept  *)
(* in thousandths, and a unit, kept as its letters.                        *)
(***************************************************************************)
\* char::to_lowercase on the letters a unit is made of
LowerOf(c) ==
    CASE c = "G" -> "g" [] c = "M" -> "m" [] c = "H" -> "h" [] c = "Z" -> "z"
      [] c = "K" -> "k" [] OTHER -> c

to_lowercase(u) == [k \in DOMAIN u |-> LowerOf(u[k])]

\* the match on the unit in input_to_hertz; -1: the panic of its last arm
multiplier(freq) ==
    CASE freq = <<"g", "h", "z">> -> 1000 * 1000
      [] freq = <<"m", "h", "z">> -> 1000
      [] freq = <<"h", "z">> -> 1
      [] OTHER -> -1

\* input_to_hertz: (number * multiplier).floor(), number in thousandths
input_to_hertz(number, unit) == (number * multiplier(to_lowercase(unit))) \div 1000

\* hertz_to_seconds: 1f64 / hertz, in nanoseconds; -1 is the infinity 1/0 gives
hertz_to_seconds(hertz) == IF hertz = 0 THEN -1 ELSE (1000 * 1000 * 1000) \div hertz

\* cli_args: the speed argument goes through hz_to_secs; a unit that is not
\* one of the three panics and main ends
cli_args ==
    /\ hist.speed.state = "given"
    /\ LET number == hist.speed.number
           unit == hist.speed.unit
       IN IF multiplier(to_lowercase(unit)) = -1
          THEN /\ hist' = [hist EXCEPT !.speed.state = "fatal"]
               /\ fe_pc' = "panicked"
          ELSE /\ hist' = [hist EXCEPT !.speed.state = "parsed",
                                       !.speed.hertz = input_to_hertz(number, unit),
                                       !.speed.secs =
                                           hertz_to_seconds(input_to_hertz(number, unit))]
               /\ fe_pc' = fe_pc
    /\ UNCHANGED <<chipVars, vramVars, inputVars, counterVars, fuseVars, fe_ops, now,
                   overflow_checks>>

(***************************************************************************)
(* SpecClock: main on every clock rate of ClockRates, up to cli_args.      *)
(***************************************************************************)
ClockUnits == {<<"H", "z">>, <<"h", "z">>, <<"H", "Z">>, <<"M", "H", "z">>,
               <<"m", "h", "z">>, <<"M", "h", "Z">>, <<"G", "H", "z">>,
               <<"g", "h", "z">>, <<"K", "H", "z">>, <<"h">>, <<>>}

\* numbers up to 2 with every unit, larger ones with Hz and MHz
ClockRates ==
    ({0, 1, 250, 500, 999, 1000, 1001, 1500, 1760, 2000} \X ClockUnits)
    \cup ({60000, 500000, 1000000} \X {<<"H", "z">>, <<"M", "H", "z">>, <<"k", "h", "z">>})

InitClock ==
    /\ Built(FuseRoms, {TRUE}, 1)
    /\ \E r \in ClockRates :
          hist = [NoHist EXCEPT !.speed = [NoSpeed EXCEPT !.number = r[1], !.unit = r[2],
                                                          !.state = "given"]]

NextClock == cli_args

SpecClock == InitClock /\ [][NextClock]_vars

(***************************************************************************)
(* SpecFifo: one ROM that talks to every actor: it sets the delay Counter  *)
(* twice and reads it, draws one pixel twice at the same place and asks    *)
(* for a key, while the front end sends key events.                        *)
(***************************************************************************)
\* the key the front end sends and the ROM asks for
FifoKeys == {7}

FifoRom ==
    RomOf(<<OpLd(10, 3), OpFx(10, 21), OpLd(10, 5), OpFx(10, 21), OpFx(2, 7),
            OpLdI(AddrOf(12)), Op(13, 0, 1, 1), Op(13, 0, 1, 1),
            OpLd(3, 7), Op(14, 3, 0, 0) + 158, Halt(10), Halt(11)>>) \o <<128, 0>>

InitFifo == InitWith({FifoRom}, {TRUE}, MaxFifoOps)

\* the 60Hz clock, for MaxFifoTime periods
FifoTick == Tick60 /\ now < MaxFifoTime

NextFifo ==
    \/ Driver \/ CycleSetTimer \/ CycleGetDelay \/ DelayRecv
    \/ CycleDraw \/ DrawGet \/ DrawPut \/ VramHandle
    \/ CycleKey \/ KeyRecv \/ InputTick \/ InputRecv
    \/ \E c \in Counters : CounterTick(c) \/ CounterRecv(c)
    \/ FifoTick
    \/ FrontExec \/ FrontKeyOf(FifoKeys)

SpecFifo == InitFifo /\ [][NextFifo]_vars

(***************************************************************************)
(* SpecEnd: the whole life of the two Counters.  The driver runs a ROM     *)
(* that reads the delay Counter, the front end reads the sound Counter,    *)
(* blows the Fuse and leaves; the clock runs for MaxEndTime periods, which *)
(* is at least one per turn of a Counter's loop in such a run.  The tokio  *)
(* runtime is multi-threaded: every spawned task that can step does, and   *)
(* the clock goes on.                                                      *)
(***************************************************************************)
EndRoms == {RomOf(<<OpFx(0, 7), Halt(1)>>)}

InitEnd == InitWith(EndRoms, {TRUE}, MaxEndOps)

\* the 60Hz clock, for MaxEndTime periods
EndTick == Tick60 /\ now < MaxEndTime

CounterStep(c) == CounterTick(c) \/ CounterRecv(c) \/ CounterEnd(c)

NextEnd ==
    \/ run_fuse \/ Driver \/ CycleGetDelay \/ DelayRecv
    \/ \E c \in Counters : CounterStep(c)
    \/ EndTick
    \/ FrontBlow \/ FrontExec \/ FrontGetSound \/ FrontSound

SpecEnd ==
    /\ InitEnd /\ [][NextEnd]_vars
    /\ \A c \in Counters : WF_vars(CounterStep(c))
    /\ WF_vars(EndTick)

(***************************************************************************)
(* SpecDraw: the interpreter on ROMs that draw a first sprite, clear the   *)
(* screen or not, draw a second sprite twice and then a sprite of no rows, *)
(* the VideoMemory actor, and a front end that starts and pauses the       *)
(* interpreter and takes snapshots of the grid.                            *)
(***************************************************************************)
SpriteA == <<240, 15>>
SpriteB == <<129, 255, 24, 0, 165, 60, 1, 128, 66, 0, 255, 16, 8, 36, 153>>

\* where the sprites go: inside, across the right and bottom edges, beyond
\* the screen, and ending on the two edges
DrawAt == {<<0, 0>>, <<60, 31>>, <<70, 33>>, <<56, 17>>}
DrawRows == {0, 1, 2, 15}

DrawRom(vx, vy, n, wipe) ==
    RomOf(<<OpLd(0, vx), OpLd(1, vy), OpLdI(AddrOf(10)), Op(13, 0, 1, Len(SpriteA)),
            IF wipe THEN 224 ELSE OpLd(2, 0),
            OpLdI(AddrOf(11)), Op(13, 0, 1, n), Op(13, 0, 1, n), Op(13, 0, 1, 0),
            Halt(9), Halt(9)>>) \o SpriteA \o SpriteB

DrawRoms == {DrawRom(at[1], at[2], n, wipe) : at \in DrawAt, n \in DrawRows, wipe \in BOOLEAN}

MaxDrawOps == 2

InitDraw == InitWith(DrawRoms, {TRUE}, MaxDrawOps)

NextDraw ==
    \/ Driver \/ CycleClear \/ CycleDraw \/ DrawGet \/ DrawPut
    \/ VramHandle
    \/ FrontExec \/ FrontGetFrame \/ FrontFrame

SpecDraw == InitDraw /\ [][NextDraw]_vars

(***************************************************************************)
(* SpecStep: the interpreter on ROMs that load V0, V1 and I and execute    *)
(* one opcode of every arm of the decoder, with the actors those arms call *)
(* and a front end that starts the interpreter. What follows the opcode is *)
(* a row of jumps to themselves, or whatever memory holds where it leads.  *)
(***************************************************************************)
\* opcodes no arm of the decoder knows (x = 1, y = 0 where they have fields)
UnknownOps == {0, 291, 225, 20737, 37121, 33032, 33037, 33039, 57600, 57759, 61696,
               61748, 61951}

\* jumps and calls to the lowest addresses, into the ROM and to the last byte,
\* Bnnn, and a return with nothing on the stack
FlowOps == {4096, 4097, 4616, 8191, 8192, 8712, 45576, 49150, 238}

\* one opcode of every other arm (x = 1, y = 0)
KnownOps == {224, 12293, 16389, 20736, 24815, 28929, 33024, 33028, 36864, 41506,
             49407, 53250, 57758, 57761, 61703, 61706, 61717, 61720, 61726, 61737,
             61747, 61781, 61797}

StepOps == UnknownOps \cup FlowOps \cup KnownOps

\* the values of V0 and V1, and of I (in the ROM's page and at the end of memory)
StepRegs == {<<0, 5>>, <<2, 156>>, <<255, 255>>}
StepIs == {768, 4093, 4094}

StepRom(v0, v1, addr, opcode) ==
    RomOf(<<OpLd(0, v0), OpLd(1, v1), OpLdI(addr), opcode, Halt(4), Halt(5), Halt(6)>>)

\* every opcode on one choice of registers, and Bnnn, Ex9E and Fx33 on all
StepRoms ==
    {StepRom(2, 5, 768, opcode) : opcode \in StepOps}
    \cup {StepRom(r[1], r[2], addr, opcode) :
             r \in StepRegs, addr \in StepIs, opcode \in {45576, 57758, 61747}}

InitStep == InitWith(StepRoms, BOOLEAN, 1)

NextStep ==
    \/ Driver \/ CycleRandom \/ CycleWaitKey \/ CycleClear
    \/ CycleDraw \/ DrawGet \/ DrawPut \/ VramHandle
    \/ CycleKey \/ KeyRecv \/ KeyFail \/ InputTick \/ InputRecv
    \/ CycleGetDelay \/ DelayRecv \/ CycleSetTimer
    \/ \E c \in Counters : CounterTick(c) \/ CounterRecv(c)
    \/ FrontExec

SpecStep == InitStep /\ [][NextStep]_vars

(***************************************************************************)
(* SpecLoad: the interpreter on a ROM that jumps to itself, and a front    *)
(* end that starts and pauses it and picks another ROM in the menu         *)
(* (clear_screen, load_rom, unpause).                                      *)
(***************************************************************************)
LoadRoms == {RomOf(<<OpLd(0, 1), Halt(1)>>), RomOf(<<Halt(0), Halt(1), Halt(2)>>)}

InitLoad == InitWith(FuseRoms, {TRUE}, MaxFrontOps)

NextLoad ==
    \/ Driver \/ VramHandle
    \/ FrontExec \/ FrontClear \/ FrontLoadRom(LoadRoms) \/ FrontUnpause

SpecLoad == InitLoad /\ [][NextLoad]_vars

(***************************************************************************)
(* SpecRace: the interpreter on a ROM that draws one pixel twice at the    *)
(* same place, the VideoMemory actor, and a front end that starts the      *)
(* interpreter and picks a ROM in the menu while it draws (clear_screen,   *)
(* load_rom, unpause).                                                     *)
(***************************************************************************)
RaceRom ==
    RomOf(<<OpLdI(AddrOf(5)), Op(13, 0, 1, 1), Op(13, 0, 1, 1), Halt(3), Halt(4)>>)
    \o <<128, 0>>

InitRace == InitWith({RaceRom}, {TRUE}, MaxRaceOps)

NextRace ==
    \/ Driver \/ CycleDraw \/ DrawGet \/ DrawPut \/ VramHandle
    \/ FrontExec \/ FrontClear \/ FrontLoadRom({RaceRom}) \/ FrontUnpause

SpecRace == InitRace /\ [][NextRace]_vars

(***************************************************************************)
(* SpecPixel: the interpreter on ROMs that draw one sprite of 1, 8 or 15   *)
(* rows from the largest and the edge values of Vx and Vy, and the         *)
(* VideoMemory actor.                                                      *)
(***************************************************************************)
PixelAt == {<<255, 255>>, <<63, 31>>, <<64, 32>>, <<200, 100>>, <<127, 20>>, <<9, 223>>}
PixelRows == {1, 8, 15}

PixelRom(vx, vy, n) ==
    RomOf(<<OpLd(0, vx), OpLd(1, vy), OpLdI(AddrOf(5)), Op(13, 0, 1, n), Halt(4)>>)
        \o SpriteB

PixelRoms == {PixelRom(at[1], at[2], n) : at \in PixelAt, n \in PixelRows}

InitPixel == InitWith(PixelRoms, {TRUE}, MaxPixelOps)

NextPixel == Driver \/ CycleDraw \/ DrawGet \/ DrawPut \/ VramHandle \/ FrontExec

SpecPixel == InitPixel /\ [][NextPixel]_vars

(***************************************************************************)
(* SpecCtl: the interpreter on a ROM that sets a register, sets I and      *)
(* makes a call before it halts, and a client that sends pause, stop,      *)
(* start and toggle in any order.                                          *)
(***************************************************************************)
CtlRoms == {RomOf(<<OpLd(3, 7), OpLdI(768), OpCall(AddrOf(3)), Halt(3)>>)}

InitCtl == InitWith(CtlRoms, {TRUE}, MaxCtlOps)

NextCtl == Driver \/ FrontControl

SpecCtl == InitCtl /\ [][NextCtl]_vars

(***************************************************************************)
(* SpecRom: as SpecLoad, with ROMs of every kind of length: none, a few    *)
(* bytes, exactly the program area, and more than the program area. The    *)
(* short ROM sets registers and makes a call before it halts.              *)
(***************************************************************************)
\* a ROM of n bytes that jumps to itself and ends in data
LongRom(n) ==
    [k \in 1..n |-> IF k = 1 THEN 18
                    ELSE IF k > RomMax - 3 THEN 1 + (k % 7)
                    ELSE 0]

RomRoms ==
    {RomOf(<<OpLd(3, 7), OpLdI(768), OpCall(AddrOf(3)), Halt(3)>>),
     <<>>, LongRom(RomMax), LongRom(RomMax + 2)}

InitRom == InitWith(FuseRoms, {TRUE}, MaxLoadOps)

NextRom ==
    \/ Driver \/ VramHandle
    \/ FrontExec \/ FrontClear \/ FrontLoadRom(RomRoms) \/ FrontUnpause

SpecRom == InitRom /\ [][NextRom]_vars

(***************************************************************************)
(* SpecCall: the interpreter on ROMs of subroutines: a chain of calls      *)
(* nested d deep that returns all the way, a subroutine called from two    *)
(* places, and a subroutine that calls itself without end.                 *)
(***************************************************************************)
\* opcode 0 calls F1 and opcode 1 halts; Fk, at opcode 2k, calls Fk+1 and
\* returns; Fd, at opcode 2d, returns
Nest(d) ==
    RomOf([j \in 1..(2 * d + 1) |->
             IF j = 2 THEN Halt(1)
             ELSE IF j % 2 = 1 /\ j < 2 * d + 1 THEN OpCall(AddrOf(j + 1))
             ELSE 238])

CallRoms ==
    {Nest(d) : d \in {1, 2, 3, MaxDepth}}
    \cup {RomOf(<<OpCall(AddrOf(3)), OpCall(AddrOf(3)), Halt(2), 238>>),
          RomOf(<<OpCall(AddrOf(0))>>)}

InitCall == InitWith(CallRoms, BOOLEAN, 1)

NextCall == Driver \/ FrontExec

SpecCall == InitCall /\ [][NextCall]_vars

(***************************************************************************)
(* SpecLoop: the interpreter on the ROM 00E0, 1200 (clear the screen, jump *)
(* back), the VRAM actor, and a front end that starts or toggles the       *)
(* interpreter and asks for frames.                                        *)
(***************************************************************************)
LoopRom == RomOf(<<224, OpJp(ProgStart)>>)

InitLoop == InitWith({LoopRom}, BOOLEAN, MaxFrontOps)

NextLoop ==
    \/ Driver \/ CycleClear \/ VramHandle
    \/ FrontExec \/ FrontGetFrame \/ FrontFrame

SpecLoop == InitLoop /\ [][NextLoop]_vars

(***************************************************************************)
(* SpecBcd: the interpreter on ROMs that load a byte into V1, an address   *)
(* into I and execute F133, for every byte and for addresses in the        *)
(* program area, in the font, in the ROM itself and at the end of memory.  *)
(***************************************************************************)
BcdIs == {768, FontBase, AddrOf(0), MemSize - 3, MemSize - 2}

BcdRoms ==
    {RomOf(<<OpLd(1, v), OpLdI(addr), OpFx(1, 51), Halt(3)>>) :
        v \in 0..255, addr \in BcdIs}

InitBcd == InitWith(BcdRoms, BOOLEAN, 1)

NextBcd == Driver \/ FrontExec

SpecBcd == InitBcd /\ [][NextBcd]_vars

(***************************************************************************)
(* Spec: every task of the program and every call of the front end, on any *)
(* of the ROMs above.                                                      *)
(***************************************************************************)
Roms == FuseRoms \cup AluRoms \cup TimerRoms \cup DrawRoms \cup StepRoms \cup CallRoms
        \cup {LoopRom} \cup BcdRoms
        \cup FlagRoms \cup KeyRoms \cup CountRoms

Init == InitWith(Roms, BOOLEAN, MaxFrontOps)

Interpreter ==
    \/ Driver \/ CycleRandom \/ CycleWaitKey \/ CycleClear
    \/ CycleDraw \/ DrawGet \/ DrawPut \/ DrawFail
    \/ CycleKey \/ KeyRecv \/ KeyFail
    \/ CycleGetDelay \/ DelayRecv \/ CycleSetTimer

FrontEnd ==
    \/ FrontBlow \/ FrontAlive \/ FrontExec \/ FrontKey
    \/ FrontGetFrame \/ FrontFrame \/ FrontGetSound \/ FrontSound
    \/ FrontClear \/ FrontLoadRom(Roms) \/ FrontUnpause

Next ==
    \/ run_fuse
    \/ Interpreter
    \/ VramHandle
    \/ InputTick \/ InputRecv
    \/ \E c \in Counters : CounterStep(c)
    \/ Tick60
    \/ FrontEnd

Spec == Init /\ [][Next]_vars

(***************************************************************************)
(* Properties of the Fuse (checked under SpecFuse).                        *)
(***************************************************************************)
\* C1: once blow() has been called, every later alive(), from the driver or
\* from the front end, returns false.
C1_AliveFalseAfterBlow == hist.alive_after # "true"

\* C2: once blow() has been called, the watcher eventually drops its receiver
\* and the driver loop eventually exits, while alive() goes on being called.
C2_BlowStopsDriver == hist.blown ~> (c8_pc = "exited")

(***************************************************************************)
(* Properties of 8xy4 and 8xy5 (checked under SpecAlu).                    *)
(***************************************************************************)
\* the last instruction executed was 8xyN, with neither x nor y the flag register
JustRan8(n) ==
    /\ hist.op # -1
    /\ OpTop(hist.op) = 8
    /\ OpN(hist.op) = n
    /\ OpX(hist.op) # 15
    /\ OpY(hist.op) # 15
    /\ c8_pc # "panicked"

\* C5: after 8xy4 (x, y # F), Vx = (Vx + Vy) mod 256 and VF = 1 if the sum
\* exceeds 255, else VF = 0, whatever VF held before.
C5_AddSetsCarry ==
    JustRan8(4) =>
        LET sum == hist.pre.vS[OpX(hist.op)] + hist.pre.vS[OpY(hist.op)]
        IN /\ vS[OpX(hist.op)] = sum % 256
           /\ vS[15] = IF sum > 255 THEN 1 ELSE 0

\* C6: after 8xy5 (x, y # F), Vx = (Vx - Vy) mod 256 and VF = 1 if the old Vx
\* was greater than the old Vy, else VF = 0, whatever VF held before.
C6_SubSetsNotBorrow ==
    JustRan8(5) =>
        LET x_val == hist.pre.vS[OpX(hist.op)]
            y_val == hist.pre.vS[OpY(hist.op)]
        IN /\ vS[OpX(hist.op)] = (x_val - y_val) % 256
           /\ vS[15] = IF x_val > y_val THEN 1 ELSE 0


(***************************************************************************)
(* Properties of the Counters (checked under SpecTimer).                   *)
(***************************************************************************)
\* C3: when a Counter has been set to 10 and not set again, a get() answered
\* 10 or more periods of the 60Hz clock after the set returns 0: the value
\* has gone down by one in every period, whether or not a message came.
C3_TenTicksReachZero ==
    \A c \in Counters :
        ( /\ hist.set[c].done
          /\ hist.set[c].new_value = 10
          /\ hist.got[c].answered
          /\ hist.got[c].late )
        => hist.got[c].count = 0

\* C4: after 6A05 and FA15, a get() on the delay Counter that is answered
\* before a period of the 60Hz clock has elapsed since FA15 returns 5.
C4_GetAfterSetReturnsIt ==
    ( /\ hist.sent["delay"].done
      /\ hist.sent["delay"].new_value = 5
      /\ hist.set["delay"].done
      /\ hist.got["delay"].answered
      /\ hist.got["delay"].fresh )
    => hist.got["delay"].count = 5

(***************************************************************************)
(* Properties of Dxyn and 00E0 (checked under SpecDraw).                   *)
(***************************************************************************)
\* the grid once the VideoMemory actor has handled what it was sent
Grid == GridAfterAll(mem, vram_q)

\* g with the cells of c flipped
Flip(g, c) == (g \ c) \cup (c \ g)

\* draw k of the history has run to its end, nothing has been executed since,
\* and no other client wrote to the grid meanwhile
JustDrew(k) ==
    /\ Len(hist.draws) >= k
    /\ k = Len(hist.draws)
    /\ hist.draws[k].done
    /\ ~hist.draws[k].foreign
    /\ hist.op = hist.draws[k].op
    /\ c8_pc # "panicked"

\* the set bits of the sprite of draw d, as (row, column) from its top left
SetBits(d) == {rc \in (0..(Len(d.bytes) - 1)) \X (0..7) : SpriteBit(d.bytes[rc[1] + 1], rc[2])}

\* the cells of those bits when the sprite wraps around the edges
WrappedCells(d) == {<<(d.vx + rc[2]) % ScreenW, (d.vy + rc[1]) % ScreenH>> : rc \in SetBits(d)}

\* the cells of those bits when the top left corner is taken modulo the
\* screen and what passes the right or the bottom edge is dropped
ClippedCells(d) ==
    {<<(d.vx % ScreenW) + rc[2], (d.vy % ScreenH) + rc[1]>> :
        rc \in {b \in SetBits(d) : /\ (d.vx % ScreenW) + b[2] < ScreenW
                                   /\ (d.vy % ScreenH) + b[1] < ScreenH}}

\* the sprite of draw d lies inside the screen
Inside(d) == d.vx + 7 < ScreenW /\ d.vy + Len(d.bytes) <= ScreenH

\* the last two draws were the same Dxyn on the same registers and sprite,
\* one right after the other, inside the screen
DrewTwice ==
    /\ Len(hist.draws) = 2
    /\ JustDrew(2)
    /\ hist.draws[2].adjacent
    /\ hist.draws[1].done
    /\ ~hist.draws[1].foreign
    /\ hist.draws[1].op = hist.draws[2].op
    /\ hist.draws[1].vx = hist.draws[2].vx
    /\ hist.draws[1].vy = hist.draws[2].vy
    /\ hist.draws[1].bytes = hist.draws[2].bytes
    /\ Inside(hist.draws[1])

\* C7: the same Dxyn executed twice in a row, the sprite inside the screen
\* and nobody else writing, leaves the grid as it was before the first, and
\* VF = 1 after the second if the first lit a pixel.
C7_DrawTwiceRestores ==
    DrewTwice =>
        /\ Grid = hist.draws[1].grid0
        /\ (hist.draws[2].grid0 \ hist.draws[1].grid0 # {} => vS[15] = 1)

C7_Witness ==
    /\ DrewTwice
    /\ hist.draws[1].grid0 # {}
    /\ hist.draws[2].grid0 \ hist.draws[1].grid0 # {}
    /\ hist.draws[1].grid0 \ hist.draws[2].grid0 # {}

\* C8 as stated: Dxyn flips the pixel at ((Vx + c) mod width, (Vy + r) mod
\* height) for every set bit (r, c) of the sprite, wrapping around the right
\* and bottom edges, and leaves every other pixel alone.
C8_DrawWraps ==
    \A k \in 1..2 :
        JustDrew(k) => Grid = Flip(hist.draws[k].grid0, WrappedCells(hist.draws[k]))

\* C8 amended: Dxyn takes the top left corner modulo the screen, flips the
\* pixel of every set bit that stays left of the right edge and above the
\* bottom edge, drops the other bits, and leaves every other pixel alone.
C8_DrawClips ==
    \A k \in 1..2 :
        JustDrew(k) => Grid = Flip(hist.draws[k].grid0, ClippedCells(hist.draws[k]))

C8_Witness ==
    \E k \in 1..2 :
        /\ JustDrew(k)
        /\ ClippedCells(hist.draws[k]) # {}
        /\ WrappedCells(hist.draws[k]) \ ClippedCells(hist.draws[k]) # {}
        /\ hist.draws[k].grid0 # {}

\* C9: when Dxyn ends, VF = 1 if a pixel went from lit to unlit in this draw
\* and VF = 0 otherwise, for every n and whatever VF held; until it ends the
\* registers are the ones it started with.
C9_VfIsCollision ==
    /\ \A k \in 1..2 :
          JustDrew(k) => vS[15] = IF hist.draws[k].grid0 \ Grid # {} THEN 1 ELSE 0
    /\ c8_pc \in {"draw_get", "draw_wait"} => vS = hist.pre.vS

C9_Witness ==
    \E k \in 1..2 :
        /\ JustDrew(k)
        /\ hist.draws[k].grid0 \ Grid # {}
        /\ Grid \ hist.draws[k].grid0 # {}
        /\ hist.pre.vS[15] = 0
        /\ vS[15] = 1

\* C10: a get-pixel sent after the interpreter executed 00E0 is answered
\* false unless a set-pixel(true) on its cell was handled after the clear.
C10_ClearedReadsFalse ==
    (hist.query.post /\ hist.query.reply = "true") => hist.query.was_set

C10_Witness ==
    /\ hist.query.post
    /\ hist.query.reply = "false"
    /\ <<hist.query.x, hist.query.y>> \in hist.wiped

(***************************************************************************)
(* Properties of single instructions (checked under SpecStep).             *)
(***************************************************************************)
\* a cycle has just executed the instruction hist.op to its end
JustRan == c8_pc = "try_recv" /\ running /\ hist.op # -1

\* the interpreter task has ended in a panic while executing hist.op
Crashed == c8_pc = "panicked"

\* C11: Fx0A waits for a key, stores it in Vx and goes on with the next
\* instruction; in particular executing Fx0A does not end the interpreter.
C11_WaitKeyGoesOn == ~(Crashed /\ IsWaitKey(hist.op))

(***************************************************************************)
(* Properties of the control messages (checked under SpecLoad).            *)
(***************************************************************************)
\* C12: from the handling of a LoadROM until an ExecStart or ExecToggle is
\* handled, the interpreter is stopped and PC is 0x200: no instruction runs.
C12_LoadRomStops == hist.loaded => (~running /\ pc = ProgStart)
\* the arms of the decoder that take the opcode
ArmsOf(opcode) ==
    {arm \in {"00E0", "Cxkk", "Dxyn", "Ex9E/ExA1", "Fx07", "Fx0A", "Fx15/Fx18", "rest"} :
        CASE arm = "00E0" -> IsClear(opcode)
          [] arm = "Cxkk" -> IsRandom(opcode)
          [] arm = "Dxyn" -> IsDraw(opcode)
          [] arm = "Ex9E/ExA1" -> IsKeyOp(opcode)
          [] arm = "Fx07" -> IsGetDelay(opcode)
          [] arm = "Fx0A" -> IsWaitKey(opcode)
          [] arm = "Fx15/Fx18" -> IsSetDelay(opcode) \/ IsSetSound(opcode)
          [] OTHER -> ~IsAsync(opcode)}

\* the instruction was a skip whose test held on the registers r
TakenSkip(opcode, r) ==
    LET x == r.vS[OpX(opcode)]
        y == r.vS[OpY(opcode)]
    IN CASE OpTop(opcode) = 3 -> x = OpKK(opcode)
         [] OpTop(opcode) = 4 -> x # OpKK(opcode)
         [] OpTop(opcode) = 5 -> OpN(opcode) = 0 /\ x = y
         [] OpTop(opcode) = 9 -> OpN(opcode) = 0 /\ x # y
         [] OTHER -> IsKeyOp(opcode)

\* the instruction redirects control flow: 00EE, 1nnn, 2nnn, Bnnn, a skip
\* taken (for Ex9E and ExA1 the keypad decides: both count as redirecting)
Redirects(opcode, r) ==
    opcode = 238 \/ OpTop(opcode) \in {1, 2, 11} \/ TakenSkip(opcode, r)

\* C13: every opcode is taken by exactly one arm of the decoder, and an
\* instruction that does not redirect control flow runs to its end and
\* leaves PC at its own address plus 2.
C13_OneArmPcPlusTwo ==
    /\ (c8_pc = "cycle" /\ running) => Cardinality(ArmsOf(Opcode)) = 1
    /\ ((JustRan \/ Crashed) /\ hist.op # -1 /\ ~Redirects(hist.op, hist.pre))
           => (JustRan /\ pc = hist.pre.pc + 2)
\* the opcodes the decoder hands to unknown_opcode
Unknown(opcode) ==
    LET top == OpTop(opcode)
    IN \/ top = 0 /\ opcode \notin {224, 238}
       \/ top \in {5, 9} /\ OpN(opcode) # 0
       \/ top = 8 /\ OpN(opcode) \in (8..13) \cup {15}
       \/ top = 14 /\ OpKK(opcode) \notin {158, 161}
       \/ top = 15 /\ OpKK(opcode) \notin {7, 10, 21, 24, 30, 41, 51, 85, 101}

\* C14: a cycle on an opcode outside the table runs to its end and changes
\* nothing but PC, which becomes the opcode's address plus 2: memory, the
\* registers, I, the stack pointer and the running flag are as before, and
\* no message has gone to an actor.
C14_UnknownIsNoOp ==
    ((JustRan \/ Crashed) /\ hist.op # -1 /\ Unknown(hist.op)) =>
        /\ JustRan
        /\ memory = hist.pre.memory
        /\ vS = hist.pre.vS
        /\ i = hist.pre.i
        /\ sp = hist.pre.sp
        /\ pc = hist.pre.pc + 2
        /\ ~hist.told

C14_Witness ==
    /\ JustRan
    /\ hist.op \in UnknownOps \ {0}
    /\ hist.pre.vS[1] # 0
    /\ hist.pre.pc = AddrOf(3)

\* C15: after Bnnn the program counter is nnn + V0, the address of the next
\* fetch.
C15_JumpV0Lands ==
    (JustRan /\ hist.op # -1 /\ OpTop(hist.op) = 11) =>
        pc = OpNNN(hist.op) + hist.pre.vS[0]

\* C16: after a 2nnn at address A the next fetch is at nnn, and one return
\* address, A, has been pushed: the stack pointer is one frame further and
\* the frame it points at holds A, the rest of memory being as before; the
\* 00EE that returns from that call leaves PC = A + 2 and the stack pointer
\* as it was before the call. This for calls nested up to MaxDepth deep.
C16_CallThenReturn ==
    /\ (JustRan /\ hist.op # -1 /\ OpTop(hist.op) = 2 /\ ~hist.deep) =>
          /\ FetchPc = OpNNN(hist.op)
          /\ sp = hist.pre.sp + 2
          /\ sp_addr(Cpu) = hist.pre.pc
          /\ \A a \in 0..(MemSize - 1) \ {sp, sp + 1} :
                MemAt(memory, a) = MemAt(hist.pre.memory, a)
    /\ (JustRan /\ hist.op = 238 /\ ~hist.deep /\ hist.back # NoFrame) =>
          /\ pc = hist.back.from + 2
          /\ sp = hist.back.sp

\* the innermost return of the deepest chain, and the outermost
C16_Witness ==
    /\ JustRan
    /\ hist.op = 238
    /\ ~hist.deep
    /\ hist.back.from = AddrOf(2 * MaxDepth - 2)
    /\ Len(hist.calls) = MaxDepth - 1

\* C17: for every nnn, 0 and 1 included, a 1nnn or 2nnn runs to the end of
\* its cycle with PC = nnn: the arithmetic on the way (nnn - 2, then + 2)
\* stays within 16 bits, so the cycle does not panic on it.
C17_JumpNeverOverflows ==
    ((JustRan \/ Crashed) /\ hist.op # -1 /\ OpTop(hist.op) \in {1, 2}) =>
        (JustRan /\ pc = OpNNN(hist.op))

C19_ClearLoop ==
    /\ c8_pc # "panicked"
    /\ pc \in {ProgStart, ProgStart + 2}
    /\ hist.op = -1 => pc = ProgStart
    /\ hist.op # -1 =>
          \/ hist.op = 224 /\ hist.pre.pc = ProgStart /\ pc = ProgStart + 2
          \/ hist.op = OpJp(ProgStart) /\ hist.pre.pc = ProgStart + 2 /\ pc = ProgStart
    /\ mem = {}
    /\ Grid = {}
    /\ frame_resp # <<>> => frame_resp[1] = {}

\* the second lap has ended, with both its clears still to be handled
C19_Witness ==
    /\ JustRan
    /\ hist.op = OpJp(ProgStart)
    /\ pc = ProgStart
    /\ Len(vram_q) >= 2

\* C20: after Fx33 with Vx = v and I <= 0xFFD, memory[I] = v div 100,
\* memory[I+1] = (v div 10) mod 10 and memory[I+2] = v mod 10; every other
\* byte of memory, every register, I and the stack pointer are as before.
C20_BcdDigits ==
    (JustRan /\ hist.op # -1 /\ OpTop(hist.op) = 15 /\ OpKK(hist.op) = 51
        /\ hist.pre.i <= MemSize - 3) =>
        LET v == hist.pre.vS[OpX(hist.op)]
            I == hist.pre.i
        IN /\ MemAt(memory, I) = v \div 100
           /\ MemAt(memory, I + 1) = (v \div 10) % 10
           /\ MemAt(memory, I + 2) = v % 10
           /\ \A a \in ((DOMAIN memory) \cup (DOMAIN hist.pre.memory)) \ {I, I + 1, I + 2} :
                 MemAt(memory, a) = MemAt(hist.pre.memory, a)
           /\ vS = hist.pre.vS
           /\ i = I
           /\ sp = hist.pre.sp

\* 156 at the last address the claim allows
C20_Witness ==
    /\ JustRan
    /\ hist.op = OpFx(1, 51)
    /\ hist.pre.vS[1] = 156
    /\ hist.pre.i = MemSize - 3
    /\ MemAt(memory, MemSize - 3) = 1
    /\ MemAt(memory, MemSize - 2) = 5
    /\ MemAt(memory, MemSize - 1) = 6

\* the step in which the driver handles a LoadROM
LoadsRom ==
    /\ c8_pc = "try_recv"
    /\ exec # <<>>
    /\ Head(exec).type = "LoadROM"
    /\ c8_pc' = "alive"

\* C21: handling a LoadROM of the bytes rom leaves memory[0x200 + k] = rom[k]
\* for every k below min(len(rom), 3584), no byte at or beyond 0x1000, and
\* V0..VF, I, the stack pointer and every byte below 0x200 as they were.
C21_LoadCopies ==
    [][LoadsRom =>
          LET rom == Head(exec).rom
              n == Min(Len(rom), RomMax)
          IN /\ \A k \in 0..(n - 1) : MemAt(memory', ProgStart + k) = rom[k + 1]
             /\ DOMAIN memory' \subseteq 0..(MemSize - 1)
             /\ \A a \in 0..(ProgStart - 1) : MemAt(memory', a) = MemAt(memory, a)
             /\ vS' = vS
             /\ i' = i
             /\ sp' = sp]_vars

\* a ROM longer than the program area has been loaded over one that had set
\* registers and made a call: the last byte of memory is the ROM's byte
\* 3584, and the registers and the frame on the stack are still there
C21_Witness ==
    /\ hist.loaded
    /\ MemAt(memory, MemSize - 1) = LongRom(RomMax + 2)[RomMax]
    /\ MemAt(memory, ProgStart) = 18
    /\ vS[3] = 7
    /\ i = 768
    /\ sp = 2
    /\ sp_addr(Cpu) = AddrOf(2)

\* the flag of 8xyN on the operands xv = Vx and yv = Vy
FlagOf(n, xv, yv) ==
    CASE n = 4 -> IF xv + yv > 255 THEN 1 ELSE 0
      [] n = 5 -> IF xv > yv THEN 1 ELSE 0
      [] n = 6 -> yv % 2
      [] n = 7 -> IF yv >= xv THEN 1 ELSE 0
      [] n = 14 -> yv \div 128

\* the last instruction executed was one of 8xy4, 8xy5, 8xy6, 8xy7, 8xyE
JustRanFlagOp ==
    /\ JustRan
    /\ OpTop(hist.op) = 8
    /\ OpN(hist.op) \in FlagOps

\* C22: after 8xy4, 8xy5, 8xy6, 8xy7 or 8xyE, for any x and y, F included,
\* VF is the flag of that instruction on the values Vx and Vy had before it:
\* carry, not-borrow or the bit shifted out, 0 or 1.
C22_VfIsTheFlag ==
    JustRanFlagOp =>
        vS[15] = FlagOf(OpN(hist.op), hist.pre.vS[OpX(hist.op)], hist.pre.vS[OpY(hist.op)])

\* the last instruction executed was Ex9E or ExA1: it has skipped or not on
\* the flag its key had when the keypad handled the query, and has left the
\* registers, I, the stack pointer and memory alone
KeySkipped ==
    (JustRan /\ IsKeyOp(hist.op)) =>
        LET flag == hist.status.flag
            skip == IF OpKK(hist.op) = 158 THEN flag ELSE ~flag
        IN /\ hist.status.key = hist.pre.vS[OpX(hist.op)]
           /\ pc = hist.pre.pc + (IF skip THEN 4 ELSE 2)
           /\ vS = hist.pre.vS
           /\ i = hist.pre.i
           /\ sp = hist.pre.sp
           /\ memory = hist.pre.memory

\* the step in which the keypad handles a Status query
HandlesStatus ==
    /\ input_pc = "recv"
    /\ input_q # <<>>
    /\ Head(input_q).type = "Status"
    /\ input_pc' # "recv"

PadFollowsKeys ==
    /\ \A k \in 0..15 : keypad[k] <=> k \in hist.down
    /\ hist.status.key # -1 => (hist.status.flag <=> hist.status.was_down)
    /\ status_resp # <<>> => status_resp[1] = hist.status.flag

\* the step in which the keypad handles a KeyDown or a KeyUp
HandlesKey ==
    /\ input_pc = "recv"
    /\ input_q # <<>>
    /\ Head(input_q).type \in {"KeyDown", "KeyUp"}
    /\ input_pc' # "recv"

\* C24: a query of key k is answered true iff the last key-down or key-up
\* handled for k was a key-down, false if there was none; handling a
\* key-down or key-up of k leaves the flags of the 15 other keys unchanged.
C24_PadFollowsKeys ==
    /\ []PadFollowsKeys
    /\ [][HandlesKey =>
             \A j \in (0..15) \ {Head(input_q).key} : keypad'[j] = keypad[j]]_vars

\* key 7 went down, was queried and answered true, and has come up before
\* the answer was read
C24_Witness ==
    /\ hist.status.key = 7
    /\ hist.status.flag
    /\ hist.down = {}
    /\ keypad = [k \in 0..15 |-> FALSE]
    /\ c8_pc = "key_wait"
    /\ status_resp = <<TRUE>>

\* the other Counter
Other(c) == IF c = "delay" THEN "sound" ELSE "delay"

\* the step in which the interpreter executes the opcode at PC, up to its
\* send if it has one
Executes == c8_pc = "cycle" /\ running /\ c8_pc' # "cycle"

\* in this step Counter c is sent msg and the other Counter nothing, and no
\* Counter's value changes
SendsOnlyTo(c, msg) ==
    /\ counter_q'[c] = Append(counter_q[c], msg)
    /\ counter_q'[Other(c)] = counter_q[Other(c)]
    /\ value' = value

\* the Counters are apart: a value changes only in a step of its own
\* Counter, which leaves the other Counter's value alone; Fx15 sends its set
\* to the delay Counter, Fx18 to the sound Counter, Fx07 its get to the delay
\* Counter, whose answer is what Vx receives
CountersApart ==
    /\ \A c \in Counters :
          value'[c] # value[c] =>
              /\ counter_pc[c] = "recv"
              /\ counter_pc'[c] = "tick"
              /\ value'[Other(c)] = value[Other(c)]
    /\ (Executes /\ IsSetDelay(Opcode)) =>
           SendsOnlyTo("delay", CMsg("SetCount", vS[OpX(Opcode)]))
    /\ (Executes /\ IsSetSound(Opcode)) =>
           SendsOnlyTo("sound", CMsg("SetCount", vS[OpX(Opcode)]))
    /\ (Executes /\ IsGetDelay(Opcode)) =>
           SendsOnlyTo("delay", CMsg("GetCount", 0))
    /\ (c8_pc = "delay_wait" /\ c8_pc' = "try_recv") =>
           /\ count_resp["delay"] # <<>>
           /\ vS'[OpX(hist.op)] = count_resp["delay"][1]
           /\ value' = value

\* the Counter the ROM never sets keeps its first value, 0
UnsetStaysZero ==
    \A c \in Counters :
        (TimerOf(Fetch(memory, AddrOf(1))) # c) => value[c] = 0

\* C25: the delay and the sound Counter are two instances: Fx15 reaches only
\* the delay Counter, Fx18 only the sound Counter, Fx07 reads the delay
\* Counter, and no set, get or decrement of one changes the other's value.
C25_CountersApart == []UnsetStaysZero /\ [][CountersApart]_vars

\* the sound Counter has been set and holds a value, and an Fx07 has since
\* read 0 from the delay Counter
C25_Witness ==
    /\ JustRan
    /\ IsGetDelay(hist.op)
    /\ value["sound"] > 0
    /\ value["delay"] = 0
    /\ vS[0] = 0
    /\ hist.got["delay"].answered

\* a step changes the value of Counter c only by handling a message: to the
\* new value less one (to 0 for a set of 0) for a set, and from a value
\* greater than 0 to one less for a get; from 0 only a set of more than 1
\* makes it anything else
CountsDown(c) ==
    value'[c] # value[c] =>
        /\ counter_pc[c] = "recv"
        /\ counter_q[c] # <<>>
        /\ LET msg == Head(counter_q[c])
           IN IF msg.type = "SetCount"
              THEN /\ msg.new_value > 0
                   /\ value'[c] = msg.new_value - 1
              ELSE /\ value[c] > 0
                   /\ value'[c] = value[c] - 1

\* C26: a Counter's value is always in 0..255; it goes down by one, and only
\* from a value above 0; at 0 it stays 0 until a set of a nonzero value is
\* handled, and never becomes 255 by counting down.
C26_CounterSaturates ==
    /\ [](\A c \in Counters : value[c] \in 0..255)
    /\ [][\A c \in Counters : CountsDown(c)]_vars

\* the delay Counter was set to 1, has counted down to 0, and a get handled
\* since has found 0 and left 0
C26_Witness ==
    /\ hist.set["delay"].done
    /\ hist.set["delay"].new_value = 1
    /\ hist.got["delay"].answered
    /\ hist.got["delay"].count = 0
    /\ value["delay"] = 0

(***************************************************************************)
(* C27: a Counter's loop ends only when no handle to it is left and its    *)
(* channel is empty (so the blown Fuse alone does not end it), it does end *)
(* once that is so, and as long as a handle is left a get() that was sent  *)
(* gets its answer.                                                        *)
(***************************************************************************)
HandleLeft == c8_pc \notin {"exited", "panicked"} \/ fe_pc \notin {"done", "panicked"}

EndedOnlyUnheld ==
    \A c \in Counters : counter_pc[c] = "ended" => ~HandleLeft /\ counter_q[c] = <<>>

\* C27: a Counter ends once, and only once, every handle to it is dropped and
\* its channel is drained; until then every get() is answered
C27_CounterOutlivesFuse ==
    /\ []EndedOnlyUnheld
    /\ ~HandleLeft ~> \A c \in Counters : counter_pc[c] = "ended"
    /\ fe_pc = "wait_audio" ~> count_resp["sound"] # <<>>
    /\ c8_pc = "delay_wait" ~> count_resp["delay"] # <<>>

\* both Counters have ended, after the Fuse was blown and a get() answered
C27_Witness ==
    /\ \A c \in Counters : counter_pc[c] = "ended"
    /\ hist.blown
    /\ hist.got["sound"].answered

(***************************************************************************)
(* C28: the driver's turn is alive(), tick, one cycle(), try_recv().       *)
(***************************************************************************)
InCycle == {"cycle", "delay_wait", "key_wait", "draw_get", "draw_wait"}

\* where the driver stands changes only along alive -> tick -> cycle -> try_recv
\* -> alive, and from alive to exited when alive() was false; once exited, or
\* panicked, it stays so
DriverOrder ==
    c8_pc' # c8_pc =>
        /\ c8_pc = "alive" => c8_pc' \in {"tick", "exited"}
        /\ c8_pc' = "tick" => c8_pc = "alive" /\ FuseSendOk
        /\ c8_pc' = "exited" => c8_pc = "alive" /\ ~FuseSendOk
        /\ c8_pc = "tick" => c8_pc' = "cycle"
        /\ c8_pc' = "cycle" => c8_pc = "tick"
        /\ c8_pc \in InCycle => c8_pc' \in InCycle \cup {"try_recv", "panicked"}
        /\ c8_pc' = "try_recv" => c8_pc \in InCycle
        /\ c8_pc = "try_recv" => c8_pc' = "alive"
        /\ c8_pc' = "alive" => c8_pc = "try_recv"
        /\ c8_pc \notin {"exited", "panicked"}

\* what handle_message(msg) does to the running flag
RunningAfter(msg) ==
    CASE msg.type = "ExecStart" -> TRUE
      [] msg.type = "ExecToggle" -> ~running
      [] msg.type \in {"ExecPause", "ExecStop"} -> FALSE
      [] OTHER -> running

\* the control channel grows at its end and shrinks at its head, by one
\* message, which try_recv() hands to handle_message; nothing else touches the
\* running flag
ControlInOrder ==
    /\ exec' # exec =>
          \/ \E type \in {"ExecStart", "ExecToggle"} : exec' = Append(exec, EMsg(type, <<>>))
          \/ /\ exec # <<>>
             /\ exec' = Tail(exec)
             /\ c8_pc = "try_recv"
             /\ c8_pc' = "alive"
             /\ running' = RunningAfter(Head(exec))
    /\ running' # running => exec' # exec
    /\ c8_pc = "try_recv" /\ c8_pc' = "alive" /\ exec # <<>> => exec' = Tail(exec)

\* C28: each turn of the driver is alive(), a tick, one cycle() and one
\* try_recv() that handles at most one control message, the oldest; no cycle
\* starts once alive() has returned false
C28_DriverTurn ==
    /\ [](c8_pc = "try_recv" => ENABLED DriverTryRecv)
    /\ [][DriverOrder /\ ControlInOrder]_vars

\* the driver has left after it handled a control message, another one pending
C28_Witness == c8_pc = "exited" /\ running /\ exec # <<>>

(***************************************************************************)
(* C29: every actor takes its messages one at a time, the oldest first.    *)
(***************************************************************************)
\* q2 is q with one message added at its end
GrownBy1(q, q2) == Len(q2) = Len(q) + 1 /\ SubSeq(q2, 1, Len(q)) = q

\* the VRAM's channel grows at its end and shrinks at its head: a set-pixel
\* gives the cell its value, a get-pixel is answered with the cell as it is
VramInOrder ==
    vram_q' # vram_q =>
        \/ GrownBy1(vram_q, vram_q')
        \/ /\ vram_q # <<>>
           /\ vram_q' = Tail(vram_q)
           /\ LET msg == Head(vram_q)
                  cell == <<msg.x, msg.y>>
              IN /\ msg.type = "SetPixel" =>
                       /\ (cell \in mem') = msg.value
                       /\ mem' \ {cell} = mem \ {cell}
                 /\ msg.type = "GetPixel" =>
                       /\ pixel_resp' = <<cell \in mem>>
                       /\ mem' = mem

\* the same for the Keypad: a key-down sets the flag, a query is answered
\* with the flag as it is
InputInOrder ==
    input_q' # input_q =>
        \/ GrownBy1(input_q, input_q')
        \/ /\ input_q # <<>>
           /\ input_q' = Tail(input_q)
           /\ LET msg == Head(input_q)
              IN /\ msg.type = "KeyDown" => keypad'[msg.key]
                 /\ msg.type = "KeyUp" => ~keypad'[msg.key]
                 /\ msg.type = "Status" =>
                       /\ status_resp' = <<keypad[msg.key]>>
                       /\ keypad' = keypad

\* the same for a Counter: a set gives the value (counted down once in the
\* same turn of the loop), a get is answered with the value as it is
CounterInOrder(c) ==
    counter_q'[c] # counter_q[c] =>
        \/ GrownBy1(counter_q[c], counter_q'[c])
        \/ /\ counter_q[c] # <<>>
           /\ counter_q'[c] = Tail(counter_q[c])
           /\ LET msg == Head(counter_q[c])
              IN /\ msg.type = "SetCount" =>
                       value'[c] = IF msg.new_value > 0 THEN msg.new_value - 1 ELSE 0
                 /\ msg.type = "GetCount" => count_resp'[c] = <<value[c]>>

\* the ROM has run to its end: of the two sets of the delay Counter the later
\* one made the count that was read, and the second draw found the pixel the
\* first one had set
FifoRomDone ==
    c8_pc = "alive" /\ pc \in {AddrOf(10), AddrOf(11)} =>
        /\ vS[2] = 4
        /\ vS[15] = 1
        /\ mem = {}

\* C29: VideoMemory, Keypad and Counter each handle their messages one at a
\* time in the order of their channel, so that a later request meets the
\* effect of every earlier one
C29_ActorsInOrder ==
    /\ []FifoRomDone
    /\ [][VramInOrder /\ InputInOrder /\ \A c \in Counters : CounterInOrder(c)]_vars

\* the ROM is done, and a key-down sent before its query was answered with it
C29_Witness ==
    /\ c8_pc = "alive"
    /\ pc = AddrOf(11)
    /\ \A k \in FifoKeys : keypad[k]
    /\ hist.status.key \in FifoKeys
    /\ hist.status.flag

(***************************************************************************)
(* C30: requests to an actor whose task has ended.                         *)
(***************************************************************************)
\* C30: a request to an actor that has ended completes as "owner shut down":
\* pressed() does not fault in the interpreter when the Keypad's task is gone,
\* and pause / unpause / toggle_exec / load_rom do not fault in the front end
\* when the driver's task is gone
C30_ClosedIsShutDown ==
    /\ ~(c8_pc = "panicked" /\ ~InputUp)
    /\ ~(fe_pc = "panicked" /\ ~ExecUp)

(***************************************************************************)
(* C31: the addresses an instruction uses.                                 *)
(***************************************************************************)
\* the highest index of memory the instruction op uses on the registers s,
\* -1 when it uses none through I
LastIndex(op, s) ==
    CASE IsDraw(op) /\ OpN(op) > 0 -> s.i + OpN(op) - 1
      [] OpTop(op) = 15 /\ OpKK(op) = 51 -> s.i + 2
      [] OpTop(op) = 15 /\ OpKK(op) \in {85, 101} -> s.i + OpX(op)
      [] OTHER -> -1

\* the value the instruction op gives I, before it is cut to 16 bits
NextI(op, s) ==
    CASE OpTop(op) = 15 /\ OpKK(op) = 30 -> s.i + s.vS[OpX(op)]
      [] OpTop(op) = 15 /\ OpKK(op) = 101 -> s.i + OpX(op) + 1
      [] OTHER -> s.i

\* C31: the last instruction executed used no index of memory at or above
\* 4096 through I, and did not take I beyond 16 bits
C31_AddressesInRange ==
    hist.op # -1 =>
        /\ LastIndex(hist.op, hist.pre) < MemSize
        /\ NextI(hist.op, hist.pre) <= 65535

(***************************************************************************)
(* C32: the depth of the call stack.                                       *)
(***************************************************************************)
\* C32: the stack pointer stands for a depth of 0 to 16 frames, and neither a
\* 2nnn nor a 00EE has taken the 8-bit stack pointer out of its range
C32_StackDepthBounded ==
    /\ sp \div 2 \in 0..16
    /\ sp % 2 = 0
    /\ ~(c8_pc = "panicked" /\ hist.op = 238 /\ hist.pre.sp < 2)
    /\ ~(c8_pc = "panicked" /\ OpTop(hist.op) = 2 /\ hist.pre.sp + 2 > 255)

(***************************************************************************)
(* C33: the clock rate.                                                    *)
(***************************************************************************)
\* C33: once the clock rate is parsed, the frequency is the number times 1,
\* 1,000,000 or 1,000,000,000 for Hz, MHz and GHz in any case of the letters,
\* the interval is one second divided by it, and any other unit was fatal
C33_ClockRate ==
    LET r == hist.speed
        unit == to_lowercase(r.unit)
    IN r.state \in {"parsed", "fatal"} =>
          IF unit \in {<<"h", "z">>, <<"m", "h", "z">>, <<"g", "h", "z">>}
          THEN /\ r.state = "parsed"
               /\ unit = <<"h", "z">> => r.hertz * 1000 = r.number
               /\ unit = <<"m", "h", "z">> => r.hertz = r.number * 1000
               /\ unit = <<"g", "h", "z">> => r.hertz = r.number * 1000 * 1000
               /\ r.hertz > 0 => r.secs = (1000 * 1000 * 1000) \div r.hertz
          ELSE r.state = "fatal"

(***************************************************************************)
(* C34: the read and the write of a pixel during a draw.                   *)
(***************************************************************************)
\* the VideoMemory actor handles a set-pixel
HandlesSetPixel ==
    /\ vram_q # <<>>
    /\ Head(vram_q).type = "SetPixel"
    /\ vram_q' = Tail(vram_q)

\* C34: a set-pixel of a draw is handled on the pixel as the draw's get-pixel
\* saw it: the value written is the opposite of the value the pixel has at
\* the moment of the write, so that every write is a real transition
C34_DrawReadsThenWrites ==
    [][HandlesSetPixel =>
          (<<Head(vram_q).x, Head(vram_q).y>> \in mem) # Head(vram_q).value]_vars

(***************************************************************************)
(* C35: the snapshot of the grid.                                          *)
(***************************************************************************)
\* the VideoMemory actor handles the message at the head of its channel
HandlesVram(type) ==
    /\ vram_q # <<>>
    /\ Head(vram_q).type = type
    /\ vram_q' = Tail(vram_q)

\* a Get is answered with the whole grid as it is and leaves it so; a Clear
\* leaves no cell lit; a set-pixel changes its own cell only; a get-pixel
\* changes none; and the grid changes in no other step
GridBetweenMessages ==
    /\ HandlesVram("Get") => frame_resp' = <<mem>> /\ mem' = mem
    /\ HandlesVram("Clear") => mem' = {}
    /\ HandlesVram("SetPixel") =>
          LET cell == <<Head(vram_q).x, Head(vram_q).y>>
          IN /\ mem' \ {cell} = mem \ {cell}
             /\ (cell \in mem') = Head(vram_q).value
    /\ HandlesVram("GetPixel") => mem' = mem
    /\ mem' # mem => HandlesVram("Clear") \/ HandlesVram("SetPixel")

\* a snapshot that waits for the front end is not touched by what the actor
\* handles next
SnapshotKept == frame_resp # <<>> /\ frame_resp' # <<>> => frame_resp' = frame_resp

\* C35: a snapshot is the whole grid as it stood between two handled
\* messages, which is what the set-pixels and Clears handled before it, in
\* their order, have made of it; no Clear is seen half-applied
C35_SnapshotIsWhole == [][GridBetweenMessages /\ SnapshotKept]_vars

\* a snapshot with lit cells, taken after the ROM has cleared the screen and
\* while more messages wait in the channel
C35_Witness ==
    /\ frame_resp # <<>>
    /\ frame_resp[1] # {}
    /\ hist.cleared
    /\ vram_q # <<>>

(***************************************************************************)
(* C36: Ex9E and ExA1 with a key above 0x0F.                               *)
(***************************************************************************)
\* the last instruction executed was Ex9E or ExA1 with Vx > 0x0F
BadKeyAsked ==
    /\ hist.op >= 0
    /\ IsKeyOp(hist.op)
    /\ hist.pre.vS[OpX(hist.op)] > 15

\* C36: Ex9E and ExA1 executed with Vx > 0x0F are absorbed without a fault:
\* after such an instruction neither the Keypad's task nor the interpreter's
\* has panicked, so the Keypad still handles what is sent to it
C36_BadKeyAbsorbed ==
    BadKeyAsked => input_pc # "panicked" /\ c8_pc # "panicked"

(***************************************************************************)
(* C37: cycle() while the running flag is false.                           *)
(***************************************************************************)
\* the driver's step out of cycle() while running is false
CycleWhileStopped == c8_pc = "cycle" /\ ~running /\ c8_pc' # c8_pc

\* the driver handles a message of this type
HandlesExec(type) ==
    /\ c8_pc = "try_recv"
    /\ exec # <<>>
    /\ Head(exec).type = type
    /\ exec' = Tail(exec)

\* C37: running is false at construction; while it is false cycle() changes
\* no interpreter state (memory, V0..VF, I, PC, sp), executes nothing and
\* sends no message to any actor; running turns true only when an ExecStart
\* or an ExecToggle is handled, and an instruction is executed only while
\* running is true
C37_StoppedCycleIsIdle ==
    /\ ~running
    /\ [][/\ CycleWhileStopped =>
                /\ UNCHANGED <<memory, vS, i, pc, sp, hist>>
                /\ UNCHANGED <<vram_q, input_q, counter_q>>
          /\ (~running /\ running') =>
                HandlesExec("ExecStart") \/ HandlesExec("ExecToggle")
          /\ (<<vS, i, sp>>' # <<vS, i, sp>> \/ hist' # hist) => running]_vars

\* stopped after it ran: a cycle has just passed with running false
C37_Witness == c8_pc = "try_recv" /\ ~running /\ hist.op >= 0 /\ vS[3] = 7

(***************************************************************************)
(* C40: the control messages.                                              *)
(***************************************************************************)
\* C40: ExecPause sets running to false and keeps PC; ExecStop sets running
\* to false and PC to 0x200; ExecStart sets running to true; ExecToggle
\* inverts running; none of the four changes memory, V0..VF, I or sp
C40_ControlMessages ==
    [][/\ HandlesExec("ExecPause") => ~running' /\ pc' = pc
       /\ HandlesExec("ExecStop") => ~running' /\ pc' = ProgStart
       /\ HandlesExec("ExecStart") => running'
       /\ HandlesExec("ExecToggle") => running' = ~running
       /\ (\E type \in ControlTypes : HandlesExec(type)) =>
             UNCHANGED <<memory, vS, i, sp>>]_vars

\* an ExecStop was handled after the ROM ran: PC is back at 0x200
C40_Witness ==
    /\ c8_pc = "alive"
    /\ ~running
    /\ pc = ProgStart
    /\ vS[3] = 7
    /\ sp = 2

(***************************************************************************)
(* C38: alive() before any blow().                                         *)
(***************************************************************************)
\* C38: before any call to blow(), every alive() returns true, however the
\* probes of the driver and of the front end interleave: the watcher has not
\* ended (probes that overflow the channel of capacity 1 only make it lag),
\* the driver has not left its loop and the front end has not left its own
C38_AliveBeforeBlow ==
    ~hist.blown => fuse_rx /\ c8_pc # "exited" /\ fe_pc # "done"

\* both have probed, the channel has overflowed, and the driver's alive() has
\* returned true
C38_Witness ==
    /\ ~hist.blown
    /\ fuse_unread > FuseCap
    /\ fe_ops = 0
    /\ c8_pc = "tick"

(***************************************************************************)
(* C39: the coordinates a draw sends.                                      *)
(***************************************************************************)
\* C39: every get-pixel and set-pixel message sent by Dxyn has 0 <= x < width
\* and 0 <= y < height, whatever Vx, Vy and n are, so the VideoMemory actor
\* never indexes outside its grid because of a draw and stays up
C39_DrawInGrid ==
    /\ vram_up
    /\ \A k \in 1..Len(vram_q) :
          vram_q[k].type \in {"GetPixel", "SetPixel"} =>
              /\ vram_q[k].x \in 0..(ScreenW - 1)
              /\ vram_q[k].y \in 0..(ScreenH - 1)

\* a sprite drawn from Vx = Vy = 255 writes the pixel of the last column and
\* the last row
C39_Witness ==
    /\ vS[0] = 255
    /\ vS[1] = 255
    /\ vram_q # <<>>
    /\ Head(vram_q).type = "SetPixel"
    /\ Head(vram_q).x = ScreenW - 1
    /\ Head(vram_q).y = ScreenH - 1

====
